---------------------------- MODULE Spec2Model ----------------------------
(***************************************************************************)
(* Binacle: an on-disk n-gram inverted index (src/src/binacle.rs).         *)
(*                                                                         *)
(* The shard file is a sparse byte map (an address that is absent reads 0, *)
(* as a file extended with set_len does).  The operations of BinacleFile   *)
(* are operators on a view  db = [mem, disk_len, filesize, raw]  made of   *)
(* the file's bytes, the file's length on disk, and the handle's fields    *)
(* filesize and raw (BinacleStruct).  Integers are little-endian, as on    *)
(* the hosts the program runs on.  Ids and n-grams stay below 2^31.        *)
(***************************************************************************)
EXTENDS Integers, Sequences, FiniteSets, TLC

(***************************************************************************)
(* The variable-byte codec.                                                *)
(***************************************************************************)

\* pack_integer: <<packed u32, number of bytes>>; <<0, 0>> stands for the
\* panic "pack integer: more than 2**28".  The masks and shifts are written
\* arithmetically: (int & 0x3F80) << 1 is bits 7..13 moved to bits 8..14.
pack_integer(int) ==
    LET b1 == int % 128
        b2 == ((int \div 128) % 128) * 256
        b3 == ((int \div 16384) % 128) * 65536
        b4 == ((int \div 2097152) % 128) * 16777216
    IN  IF int < 128 THEN <<b1, 1>>
        ELSE IF int < 16384 THEN <<b1 + 128 + b2, 2>>
        ELSE IF int <= 2097152 THEN <<b1 + 128 + b2 + 32768 + b3, 3>>
        ELSE IF int <= 268435456
             THEN <<b1 + 128 + b2 + 32768 + b3 + 8388608 + b4, 4>>
        ELSE <<0, 0>>

\* unpack_integer: <<value, number of bytes>>.  Bit 31 of the argument is
\* never examined by the source (the masks stop at 0x7F << 24).
unpack_integer(int) ==
    LET b1 == int % 128
        b2 == ((int \div 256) % 128) * 128
        b3 == ((int \div 65536) % 128) * 16384
        b4 == ((int \div 16777216) % 128) * 2097152
    IN  IF (int \div 128) % 2 = 0 THEN <<b1, 1>>
        ELSE IF (int \div 32768) % 2 = 0 THEN <<b1 + b2, 2>>
        ELSE IF (int \div 8388608) % 2 = 0 THEN <<b1 + b2 + b3, 3>>
        ELSE <<b1 + b2 + b3 + b4, 4>>

(***************************************************************************)
(* The mapped file: bytes, little-endian reads and writes.                 *)
(***************************************************************************)

\* ptr::read of one byte of the map.
Byte(m, a) == IF a \in DOMAIN m THEN m[a] ELSE 0

\* One byte stored in the map (zero bytes are not kept: they read 0 anyway).
WriteByte(m, a, b) ==
    IF b = 0
    THEN [x \in (DOMAIN m) \ {a} |-> m[x]]
    ELSE [x \in (DOMAIN m) \cup {a} |-> IF x = a THEN b ELSE m[x]]

RECURSIVE ReadLE(_, _, _)
\* ptr::read of an n-byte little-endian integer at address a.
ReadLE(m, a, n) ==
    IF n = 0 THEN 0 ELSE Byte(m, a) + 256 * ReadLE(m, a + 1, n - 1)

RECURSIVE WriteLE(_, _, _, _)
\* ptr::copy_nonoverlapping of the n low bytes of v to address a.
WriteLE(m, a, v, n) ==
    IF n = 0 THEN m
    ELSE WriteLE(WriteByte(m, a, v % 256), a + 1, v \div 256, n - 1)

\* The u32 read that unpack_list hands to unpack_integer, without bit 31
\* (which unpack_integer ignores).
ReadPacked(m, a) ==
    ReadLE(m, a, 3) + 16777216 * (Byte(m, a + 3) % 128)

\* The bytes of m below address n.
Below(m, n) == [x \in {y \in DOMAIN m : y < n} |-> m[x]]

\* File::set_len: the file is cut or zero-extended to n bytes.  When the
\* file system refuses to extend the file, the call fails and its callers
\* drop the error (let _ = file.set_len(..)).
set_len(db, n) ==
    IF db.full /\ n > db.disk_len THEN db
    ELSE [db EXCEPT !.disk_len = n, !.mem = Below(db.mem, n)]

(***************************************************************************)
(* Header table and block prefix.                                          *)
(***************************************************************************)

\* Every n-gram reduced to the first header slot.
reduce_ngram_none(db, ngram) == 0

reduce_ngram(db, ngram) == ngram % (2 ^ db.raw.ngram_size)

\* The header slot of the n-gram, as a byte offset of the head block.
ngram_list_ptr(db, ngram_f) ==
    ReadLE(db.mem, db.raw.offset_size * reduce_ngram(db, ngram_f),
           db.raw.offset_size) * (2 ^ db.raw.alignment)

\* <<size_log, nb_elem, nb_bytes, prev_off>> of the block at list_off.
get_list_meta(db, list_off) ==
    << Byte(db.mem, list_off),
       ReadLE(db.mem, list_off + 1, 2),
       ReadLE(db.mem, list_off + 3, 2),
       ReadLE(db.mem, list_off + 5, db.raw.offset_size)
           * (2 ^ db.raw.alignment) >>

update_list_meta(db, list_off, size, nb, nb_bytes, prev_off) ==
    LET m1 == WriteLE(db.mem, list_off, size, 1)
        m2 == WriteLE(m1, list_off + 1, nb, 2)
        m3 == WriteLE(m2, list_off + 3, nb_bytes, 2)
        m4 == WriteLE(m3, list_off + 5, prev_off \div (2 ^ db.raw.alignment),
                      db.raw.offset_size)
    IN  [db EXCEPT !.mem = m4]

update_header(db, ngram_f, list_off) ==
    [db EXCEPT !.mem =
        WriteLE(db.mem, db.raw.offset_size * reduce_ngram(db, ngram_f),
                list_off \div (2 ^ db.raw.alignment), db.raw.offset_size)]

(***************************************************************************)
(* The bump allocator.                                                     *)
(***************************************************************************)

\* 512*1024*1024, the least amount the file grows by.
GrowStep == 536870912

Max(a, b) == IF a >= b THEN a ELSE b
Min(a, b) == IF a <= b THEN a ELSE b

incr_size(db, incr) ==
    [set_len(db, db.filesize + incr) EXCEPT !.filesize = db.filesize + incr]

\* An allocator that never grows the file.
get_new_free_list_fixed(db, size_log) ==
    << [db EXCEPT !.raw.size = db.raw.size + 2 ^ size_log], db.raw.size >>

\* An allocator that hands out the end of the shard without advancing it.
get_new_free_list_again(db, size_log) == << db, db.raw.size >>

\* <<db after the allocation, offset of the new block>>.
get_new_free_list(db, size_log) ==
    LET list_size == 2 ^ size_log
        d1 == IF db.raw.size + list_size >= db.filesize
              THEN incr_size(db, Max(GrowStep, list_size))
              ELSE db
    IN  << [d1 EXCEPT !.raw.size = db.raw.size + list_size], db.raw.size >>

\* A new block whose prev is the block itself.
realloc_list_loop(db, list_off, ngram) ==
    LET meta == get_list_meta(db, list_off)
        new_size_log == Min(meta[1] + 1, 12)
        got == get_new_free_list(db, new_size_log)
        d1 == update_header(got[1], ngram, got[2])
        d2 == update_list_meta(d1, got[2], new_size_log, meta[2], 0, got[2])
    IN  << d2, got[2], new_size_log >>

\* A new block of the size of the old one.
realloc_list_same(db, list_off, ngram) ==
    LET meta == get_list_meta(db, list_off)
        got == get_new_free_list(db, meta[1])
        d1 == update_header(got[1], ngram, got[2])
        d2 == update_list_meta(d1, got[2], meta[1], meta[2], 0, list_off)
    IN  << d2, got[2], meta[1] >>

\* <<db, new_list_off, new_size_log>>.
realloc_list(db, list_off, ngram) ==
    LET meta == get_list_meta(db, list_off)
        new_size_log == Min(meta[1] + 1, 12)
        got == get_new_free_list(db, new_size_log)
        d1 == update_header(got[1], ngram, got[2])
        d2 == update_list_meta(d1, got[2], new_size_log, meta[2], 0, list_off)
    IN  << d2, got[2], new_size_log >>

\* <<db, list_off>>.
alloc_list(db, ngram_f) ==
    LET list_size_log == db.raw.alignment
        got == get_new_free_list(db, list_size_log)
        d1 == update_header(got[1], reduce_ngram(db, ngram_f), got[2])
        d2 == update_list_meta(d1, got[2], list_size_log, 0, 0, 0)
    IN  << d2, got[2] >>


(***************************************************************************)
(* insert_ngram.  The result is [db, res, nb]: res = "ok" with the value   *)
(* of Ok(..), or res = "panic".  A panic leaves the view as it was when    *)
(* it was raised.                                                          *)
(***************************************************************************)

\* A block taken as full only once its payload has passed its end.
list_is_full_late(db, size_log, nb_bytes) ==
    2 ^ size_log < nb_bytes

\* The block does not have room for one more element (line 288).
list_is_full(db, size_log, nb_bytes) ==
    2 ^ size_log < nb_bytes + 4 + 5 + db.raw.offset_size

\* Lines 298-352, once the head block (list_off, with the fields read or
\* reset at lines 286-295) is known.
update_list(db, id, list_off, size_log, nb_elem, nb_bytes, prev_off) ==
    LET list_ptr == list_off + 5 + db.raw.offset_size + nb_bytes
    IN  IF nb_elem # 0
        THEN LET last_id == ReadLE(db.mem, list_ptr - 4, 4)
             IN  IF last_id = id
                 THEN [db |-> db, res |-> "ok", nb |-> nb_elem]
                 ELSE IF id < last_id
                 \* id - last_id underflows: a debug build panics at the
                 \* subtraction; a release build wraps to 2^32 - (last_id - id),
                 \* which is above 2^28 for ids below 2^31, and pack_integer
                 \* panics.
                 THEN [db |-> db, res |-> "panic", nb |-> 0]
                 ELSE LET packed == pack_integer(id - last_id)
                          pack_size == packed[2]
                          last_id_ptr == IF nb_elem = 1 THEN list_ptr
                                         ELSE list_ptr - 4
                          nb_bytes1 == IF nb_elem = 1 THEN nb_bytes + 4
                                       ELSE nb_bytes
                          m1 == WriteLE(db.mem, last_id_ptr, packed[1], pack_size)
                          m2 == WriteLE(m1, last_id_ptr + pack_size, id, 4)
                      IN  IF pack_size = 0
                          THEN [db |-> db, res |-> "panic", nb |-> 0]
                          ELSE [db |-> update_list_meta([db EXCEPT !.mem = m2],
                                           list_off, size_log, nb_elem + 1,
                                           nb_bytes1 + pack_size, prev_off),
                                res |-> "ok", nb |-> nb_elem + 1]
        ELSE [db |-> update_list_meta(
                        [db EXCEPT !.mem = WriteLE(db.mem, list_ptr, id, 4)],
                        list_off, size_log, nb_elem + 1, nb_bytes + 4, prev_off),
              res |-> "ok", nb |-> nb_elem + 1]

insert_ngram(db, id, ngram) ==
    LET off0 == ngram_list_ptr(db, ngram)
        got == IF off0 = 0 THEN alloc_list(db, ngram) ELSE <<db, off0>>
        meta == get_list_meta(got[1], got[2])
        full == list_is_full(db, meta[1], meta[3])
        relist == realloc_list(got[1], got[2], ngram)
    IN  IF full
        THEN update_list(relist[1], id, relist[2], relist[3], 0, 0, got[2])
        ELSE update_list(got[1], id, got[2], meta[1], meta[2], meta[3], meta[4])

(***************************************************************************)
(* Queries.                                                                *)
(***************************************************************************)

RECURSIVE unpack_rest(_, _, _, _)
\* The while loop of unpack_list: nb_elem deltas are decoded from cur_ptr.
unpack_rest(m, cur_ptr, cur_elem, nb_elem) ==
    IF nb_elem = 0 THEN {}
    ELSE LET u == unpack_integer(ReadPacked(m, cur_ptr))
         IN  {cur_elem + u[1]}
             \cup unpack_rest(m, cur_ptr + u[2], cur_elem + u[1], nb_elem - 1)

unpack_list(db, list_off) ==
    LET nb_elem == get_list_meta(db, list_off)[2]
        first == list_off + 5 + db.raw.offset_size
        cur_elem == ReadLE(db.mem, first, 4)
    IN  IF nb_elem = 0 THEN {}
        ELSE {cur_elem} \cup unpack_rest(db.mem, first + 4, cur_elem, nb_elem - 1)

RECURSIVE ids_from(_, _)
\* The while loop of get_ids_by_ngram, from the block at list_off.
ids_from(db, list_off) ==
    IF list_off = 0 THEN {}
    ELSE unpack_list(db, list_off)
         \cup ids_from(db, get_list_meta(db, list_off)[4])

get_ids_by_ngram(db, ngram) == ids_from(db, ngram_list_ptr(db, ngram))

\* An intersection that looks at the head block only.
intersect_from_head(db, set, list_off, new_set) ==
    IF list_off = 0 THEN new_set
    ELSE new_set \cup (set \cap unpack_list(db, list_off))

RECURSIVE intersect_from(_, _, _, _)
\* The while loop of intersect_ids_by_ngram, with its early exit.
intersect_from(db, set, list_off, new_set) ==
    IF list_off = 0 THEN new_set
    ELSE LET grown == new_set \cup (set \cap unpack_list(db, list_off))
         IN  IF Cardinality(grown) = Cardinality(set) THEN grown
             ELSE intersect_from(db, set, get_list_meta(db, list_off)[4], grown)

intersect_ids_by_ngram(db, set, ngram) ==
    intersect_from(db, set, ngram_list_ptr(db, ngram), {})

RECURSIVE size_from(_, _)
size_from(db, list_off) ==
    IF list_off = 0 THEN 0
    ELSE get_list_meta(db, list_off)[2]
         + size_from(db, get_list_meta(db, list_off)[4])

get_ids_size_by_ngram(db, ngram) == size_from(db, ngram_list_ptr(db, ngram))

(***************************************************************************)
(* search and insert_file.                                                 *)
(***************************************************************************)

\* The u32 that ptr::read finds at 4 consecutive bytes.
ngram_at(bytes, i) ==
    bytes[i + 1] + 256 * bytes[i + 2] + 65536 * bytes[i + 3]
        + 16777216 * bytes[i + 4]

\* The orders in which the sort of search_ngrams can leave the n-grams: the
\* HashSet is iterated in an arbitrary order and the sort is by list size.
sorted_orders(db, ngrams) ==
    { o \in [1 .. Cardinality(ngrams) -> ngrams] :
        /\ \A i, j \in DOMAIN o : i # j => o[i] # o[j]
        /\ \A i, j \in DOMAIN o :
             i < j => get_ids_size_by_ngram(db, o[i])
                        <= get_ids_size_by_ngram(db, o[j]) }

RECURSIVE intersect_all(_, _, _, _)
\* The for loop of search_ngrams over ngram_to_nb[i ..].
intersect_all(db, order, i, set) ==
    IF i > Len(order) \/ set = {} THEN set
    ELSE intersect_all(db, order, i + 1,
                       intersect_ids_by_ngram(db, set, order[i]))

\* The results search_ngrams can return (one per order of the sort).
search_ngrams(db, ngrams) ==
    { intersect_all(db, o, 2, get_ids_by_ngram(db, o[1])) :
        o \in sorted_orders(db, ngrams) }

\* A search that answers a short pattern with the empty set.
search_any_length(db, pattern) ==
    IF Len(pattern) < 4 THEN [err |-> "", sets |-> {{}}, looked |-> {}]
    ELSE [err |-> "",
          sets |-> search_ngrams(db,
                     { ngram_at(pattern, i) : i \in 0 .. Len(pattern) - 4 }),
          looked |-> { ngram_at(pattern, i) : i \in 0 .. Len(pattern) - 4 }]

\* search: the error "pattern size is < 4", or the results search_ngrams can
\* return; looked is the set of n-grams handed to search_ngrams.
search(db, pattern) ==
    IF Len(pattern) < 4
    THEN [err |-> "pattern size is < 4", sets |-> {}, looked |-> {}]
    ELSE [err |-> "",
          sets |-> search_ngrams(db,
                     { ngram_at(pattern, i) : i \in 0 .. Len(pattern) - 4 }),
          looked |-> { ngram_at(pattern, i) : i \in 0 .. Len(pattern) - 4 }]

\* Length of the read buffer of insert_file (4096*256 in the source), scaled
\* down so that a file longer than one buffer fits the model.
BufLen == 4

\* One pass of the for loop: the outcome one of insert_ngram(id, ngram) is
\* folded into r = [db, res, done], done being the n-grams inserted so far.
\* The Err of insert_ngram is dropped (let _ =); a panic ends the call.
window_done(r, ngram, one) ==
    [db |-> one.db, res |-> one.res,
     done |-> IF one.res = "ok" THEN r.done \cup {ngram} ELSE r.done]

RECURSIVE insert_windows(_, _, _, _)
\* The for loop over one buffer: windows i .. len-4 are inserted.
insert_windows(r, buf, i, id) ==
    IF r.res = "panic" \/ i > Len(buf) - 4 THEN r
    ELSE insert_windows(
             window_done(r, ngram_at(buf, i),
                         insert_ngram(r.db, id, ngram_at(buf, i))),
             buf, i + 1, id)

\* What one read returns from position pos: the buffer is filled as far as
\* the file goes.
read_len(contents, pos) == Min(BufLen, Len(contents) - pos)

RECURSIVE read_loop(_, _, _, _)
\* The read loop: each read fills the buffer from the current position;
\* a read of 0..3 bytes ends the loop.
read_loop(r, contents, pos, id) ==
    IF r.res = "panic" \/ read_len(contents, pos) < 4 THEN r
    ELSE read_loop(
             insert_windows(r, SubSeq(contents, pos + 1,
                                      pos + read_len(contents, pos)), 0, id),
             contents, pos + read_len(contents, pos), id)

\* Lines 156-161: the metadata is updated and Ok(id) returned, unless a
\* panic ended the loop.
file_done(r, contents, id) ==
    IF r.res = "panic" THEN r
    ELSE [r EXCEPT !.db.raw.total_size = @ + Len(contents),
                   !.db.raw.nb_file = @ + 1,
                   !.db.raw.last_id = id]

\* insert_file on a readable file with the given contents.
insert_file(db, contents, id) ==
    file_done(read_loop([db |-> db, res |-> "ok", done |-> {}], contents, 0, id),
              contents, id)

(***************************************************************************)
(* The shard as a state machine: one shard path, its metadata sidecar, and *)
(* the processes that create, open, fill and close it.                     *)
(***************************************************************************)

VARIABLES
    file_exists,  \* the shard file exists
    mem,          \* its bytes (shared by every mapping of the file)
    disk_len,     \* its length on disk
    meta_exists,  \* the sidecar <shard>.meta exists
    meta,         \* the BinacleStruct the sidecar holds
    pc,           \* per process: where it is in create / open_* / drop
    hnd,          \* per process: filesize and raw of its BinacleFile
    nops,         \* number of insert and search calls made so far
    last_op,      \* the last call made and what it returned
    files,        \* history: the files insert_file returned Ok for
    inserted,     \* history: <<id, header slot>> of every insert_ngram Ok
    pre_ok,       \* history: every insert so far came in id order
    snap,         \* history: what the last writer to close could see
    contended,    \* history: processes that asked to open while a writer was open
    disk_full,    \* the file system refuses to extend a file
    mgr,          \* the BinacleManagers: meta and cur_index of each
    mfile,        \* the manager file
    m_nops,       \* calls made on the managers so far
    shards,       \* the shard files of the manager and their sidecars
    m_last,       \* the last call made on the manager and what it returned
    ins,          \* the insert_ngram that has allocated and not yet stored
    c_pc, c_in, c_packed, c_out   \* the codec exercised on its own

vars == << file_exists, mem, disk_len, meta_exists, meta, pc, hnd, nops,
           last_op, files, inserted, pre_ok, snap, contended, disk_full,
           mgr, mfile, m_nops, shards, m_last, ins,
           c_pc, c_in, c_packed, c_out >>

shard_vars == << file_exists, mem, disk_len, meta_exists, meta, pc, hnd, nops,
                 last_op, files, inserted, pre_ok, snap, contended >>

codec_vars == << c_pc, c_in, c_packed, c_out >>

mgr_vars == << mgr, mfile, m_nops, shards, m_last >>

heap_vars == << ins >>

\* Processes that may use the shard at the same time.
Procs == {1, 2}

\* Largest number of insert calls in a behaviour.
MaxOps == 2

\* Longest file handed to insert_file.
MaxFileLen == 6

\* (offset_size, alignment, ngram_size) a shard is created with.
ParamSet ==
    { [offset_size |-> 4, alignment |-> 4, ngram_size |-> 14],
      [offset_size |-> 5, alignment |-> 6, ngram_size |-> 14] }

\* File ids: their differences include 1, 2^21 - 1 and 2^21.
IdSet == {1, 2, 2097153}

\* File contents: up to two bytes 1 followed by bytes 2.
FileSet ==
    { f \in { [i \in 1 .. (k + j) |-> IF i <= k THEN 1 ELSE 2] :
                k \in 0 .. 2, j \in 0 .. MaxFileLen } : Len(f) <= MaxFileLen }

\* The 4-byte windows of a byte string.
Windows(bytes) == { ngram_at(bytes, i) : i \in 0 .. Len(bytes) - 4 }

\* N-grams handed to insert_ngram directly: "1222", "2222", and one that
\* shares the header slot of "1222" when ngram_size is 14.
NgramSet == { ngram_at(<<1, 2, 2, 2>>, 0), ngram_at(<<2, 2, 2, 2>>, 0),
              ngram_at(<<1, 2, 1, 1>>, 0) }

\* The n-grams the properties look up.
ProbeNgrams == NgramSet \cup UNION { Windows(f) : f \in FileSet }

NoRaw == [size |-> 0, offset_size |-> 0, alignment |-> 0, ngram_size |-> 0,
          nb_file |-> 0, last_id |-> 0, total_size |-> 0]

NoHandle == [filesize |-> 0, raw |-> NoRaw]

\* The processes that hold a BinacleManager on the one database.
Mgrs == {1, 2}

\* cur_index = None.
NoCur == [i |-> 0, filesize |-> 0, raw |-> NoRaw]

\* No BinacleManager in this process.
NoMgr == [pc |-> "none", pattern |-> << >>, max_index_size |-> 0,
          offset_size |-> 0, alignment |-> 0, ngram_size |-> 0,
          nb_file |-> 0, last_id |-> 0, index |-> << >>, cur |-> NoCur]

\* No manager file.
NoFile == [exists |-> FALSE, meta |-> << >>, json |-> 0, len |-> 0]

\* No insert_ngram under way.
NoIns == [id |-> 0, ngram |-> 0]

NoCall == [kind |-> "none", m |-> 0, res |-> "", id |-> 0,
           contents |-> << >>, target |-> 0, found |-> {}]

NoOp == [kind |-> "none", p |-> 0, id |-> 0, ngram |-> 0, contents |-> <<>>,
         res |-> "", repeat |-> FALSE, noop |-> FALSE, found |-> {},
         looked |-> {}, prev |-> 0 - 1, grow |-> FALSE]

\* The view of the shard a handle works on.
ViewOf(m, dl, h) ==
    [mem |-> m, disk_len |-> dl, filesize |-> h.filesize, raw |-> h.raw,
     full |-> disk_full]

View(p) == ViewOf(mem, disk_len, hnd[p])

Open(p) == pc[p] \in {"read", "write"}

\* What get_ids_by_ngram returns for each probed n-gram.
Visible(db) == [n \in ProbeNgrams |-> get_ids_by_ngram(db, n)]

Init ==
    /\ file_exists = FALSE
    /\ mem = << >>
    /\ disk_len = 0
    /\ meta_exists = FALSE
    /\ meta = NoRaw
    /\ pc = [p \in Procs |-> "idle"]
    /\ hnd = [p \in Procs |-> NoHandle]
    /\ nops = 0
    /\ last_op = NoOp
    /\ files = {}
    /\ inserted = {}
    /\ pre_ok = TRUE
    /\ snap = [closed |-> FALSE, raw |-> NoRaw, dirty |-> FALSE,
               ids |-> [n \in ProbeNgrams |-> {}]]
    /\ contended = {}
    /\ disk_full = FALSE
    /\ mgr = [m \in Mgrs |-> NoMgr] /\ mfile = NoFile /\ m_nops = [calls |-> 0, life |-> 0]
    /\ shards = << >> /\ m_last = NoCall
    /\ ins = NoIns
    /\ c_pc = "off" /\ c_in = 0 /\ c_packed = <<0, 0>> /\ c_out = <<0, 0>>

(***************************************************************************)
(* Locks (fs2 lock_exclusive / lock_shared on the shard file): taken when  *)
(* the handle is built, released when the handle's File is dropped.        *)
(***************************************************************************)

\* An exclusive lock that never waits.
lock_exclusive_free(p) == TRUE

\* lock_exclusive returns: no other open file holds a lock.
lock_exclusive(p) == \A q \in Procs \ {p} : ~Open(q)

\* A shared lock that never waits.
lock_shared_none(p) == TRUE

\* lock_shared returns: no other open file holds the exclusive lock.
lock_shared(p) == \A q \in Procs \ {p} : pc[q] # "write"

(***************************************************************************)
(* create, in two steps: the file is created (create_new), then locked,    *)
(* sized and described.                                                    *)
(***************************************************************************)

\* A create that truncates the file it finds (create(true).truncate(true)
\* in place of create_new(true)).
create_truncating(p, par) ==
    /\ pc[p] = "idle"
    /\ file_exists' = TRUE
    /\ mem' = << >>
    /\ disk_len' = 0
    /\ pc' = [pc EXCEPT ![p] = "creating"]
    /\ hnd' = [hnd EXCEPT ![p] =
                 [filesize |-> 0,
                  raw |-> [NoRaw EXCEPT
                             !.offset_size = par.offset_size,
                             !.alignment = par.alignment,
                             !.ngram_size = par.ngram_size]]]
    /\ last_op' = [NoOp EXCEPT !.kind = "create", !.p = p, !.res = "pending"]
    /\ UNCHANGED << meta_exists, meta, nops, files, inserted, pre_ok, snap,
                    contended >>
    /\ UNCHANGED << codec_vars, disk_full, mgr_vars, heap_vars >>

\* Lines 41-45: OpenOptions .. create_new(true).open(path).
create(p, par) ==
    /\ pc[p] = "idle"
    /\ IF file_exists
       THEN /\ last_op' = [NoOp EXCEPT !.kind = "create", !.p = p,
                                       !.res = "AlreadyExists"]
            /\ UNCHANGED << file_exists, mem, disk_len, pc, hnd >>
       ELSE /\ file_exists' = TRUE
            /\ mem' = << >>
            /\ disk_len' = 0
            /\ pc' = [pc EXCEPT ![p] = "creating"]
            /\ hnd' = [hnd EXCEPT ![p] =
                         [filesize |-> 0,
                          raw |-> [NoRaw EXCEPT
                                     !.offset_size = par.offset_size,
                                     !.alignment = par.alignment,
                                     !.ngram_size = par.ngram_size]]]
            /\ last_op' = [NoOp EXCEPT !.kind = "create", !.p = p,
                                       !.res = "pending"]
    /\ UNCHANGED << meta_exists, meta, nops, files, inserted, pre_ok, snap,
                    contended >>
    /\ UNCHANGED << codec_vars, disk_full, mgr_vars, heap_vars >>

\* The size of the header table, padded only when it is not a multiple of
\* 2^alignment.
header_size_exact(raw) ==
    LET size == raw.offset_size * (2 ^ raw.ngram_size)
    IN  ((size + (2 ^ raw.alignment) - 1) \div (2 ^ raw.alignment))
            * (2 ^ raw.alignment)

\* Lines 60-62: the size of the header table, padded.
header_size(raw) ==
    LET size == raw.offset_size * (2 ^ raw.ngram_size)
    IN  size + (2 ^ raw.alignment) - (size % (2 ^ raw.alignment))

\* The file was sized and described: the handle is built, unless the file
\* is still empty (set_len failed), which Mmap::open(..).unwrap() answers
\* with a panic.
create_mapped(p, size, header, db) ==
    /\ mem' = db.mem
    /\ disk_len' = db.disk_len
    /\ meta_exists' = TRUE
    /\ meta' = header
    /\ IF db.disk_len = 0
       THEN /\ hnd' = [hnd EXCEPT ![p] = NoHandle]
            /\ pc' = [pc EXCEPT ![p] = "idle"]
            /\ last_op' = [NoOp EXCEPT !.kind = "create", !.p = p,
                                       !.res = "panic"]
       ELSE /\ hnd' = [hnd EXCEPT ![p] = [filesize |-> size, raw |-> header]]
            /\ pc' = [pc EXCEPT ![p] = "write"]
            /\ last_op' = [NoOp EXCEPT !.kind = "create", !.p = p,
                                       !.res = "ok"]

\* Lines 48-79: lock_exclusive, set_len, write_meta, map, read_meta.
create_locked(p) ==
    /\ pc[p] = "creating"
    /\ lock_exclusive(p)
    /\ create_mapped(p, header_size(hnd[p].raw),
                     [hnd[p].raw EXCEPT !.size = header_size(hnd[p].raw)],
                     set_len(ViewOf(mem, disk_len, hnd[p]),
                             header_size(hnd[p].raw)))
    /\ UNCHANGED << file_exists, nops, files, inserted, pre_ok, snap,
                    contended >>
    /\ UNCHANGED << codec_vars, disk_full, mgr_vars, heap_vars >>

(***************************************************************************)
(* open_read and open_write, in two steps: the file is opened, then locked *)
(* and mapped.                                                             *)
(***************************************************************************)

\* Lines 86-88 and 110-114: OpenOptions .. open(path).
open_file(p, mode) ==
    /\ pc[p] = "idle"
    /\ IF file_exists
       THEN /\ pc' = [pc EXCEPT ![p] = IF mode = "read" THEN "wait_read"
                                       ELSE "wait_write"]
            /\ contended' = IF \E q \in Procs : pc[q] = "write"
                            THEN contended \cup {p} ELSE contended \ {p}
            /\ last_op' = [NoOp EXCEPT !.kind = "open", !.p = p,
                                       !.res = "pending"]
       ELSE /\ pc' = pc
            /\ contended' = contended
            /\ last_op' = [NoOp EXCEPT !.kind = "open", !.p = p,
                                       !.res = "NotFound"]
    /\ UNCHANGED << file_exists, mem, disk_len, meta_exists, meta, hnd, nops,
                    files, inserted, pre_ok, snap >>
    /\ UNCHANGED << codec_vars, disk_full, mgr_vars, heap_vars >>

open_read(p) == open_file(p, "read")

open_write(p) == open_file(p, "write")

\* Lines 91-105 and 117-131: the lock is taken, the length read, the file
\* mapped and the sidecar read.  Mmap::open panics (unwrap) when the file
\* is empty, read_meta when the sidecar is not there yet; the File is then
\* dropped and the lock released.
open_locked(p) ==
    /\ \/ pc[p] = "wait_read" /\ lock_shared(p)
       \/ pc[p] = "wait_write" /\ lock_exclusive(p)
    /\ IF meta_exists /\ disk_len > 0
       THEN /\ hnd' = [hnd EXCEPT ![p] = [filesize |-> disk_len, raw |-> meta]]
            /\ pc' = [pc EXCEPT ![p] = IF pc[p] = "wait_read" THEN "read"
                                       ELSE "write"]
            /\ last_op' = [NoOp EXCEPT !.kind = "open", !.p = p, !.res = "ok"]
       ELSE /\ hnd' = hnd
            /\ pc' = [pc EXCEPT ![p] = "idle"]
            /\ last_op' = [NoOp EXCEPT !.kind = "open", !.p = p,
                                       !.res = "panic"]
    /\ UNCHANGED << file_exists, mem, disk_len, meta_exists, meta, nops,
                    files, inserted, pre_ok, snap, contended >>
    /\ UNCHANGED << codec_vars, disk_full, mgr_vars, heap_vars >>

(***************************************************************************)
(* Drop for BinacleFile: the sidecar is rewritten from raw, then the       *)
(* mapping goes, and with it what was stored past the end of the file, and *)
(* the File is closed, which releases the lock.                            *)
(***************************************************************************)

\* A drop that leaves the sidecar as it was.
drop_meta_stale(h) == meta

\* write_meta(&self.path, &meta): the sidecar after the drop of handle h.
drop_meta(h) == h.raw

drop(p) ==
    /\ Open(p)
    /\ meta_exists' = TRUE
    /\ meta' = drop_meta(hnd[p])
    /\ snap' = IF pc[p] = "write"
               THEN [closed |-> TRUE, raw |-> hnd[p].raw, dirty |-> FALSE,
                     ids |-> Visible(View(p))]
               ELSE snap
    /\ pc' = [pc EXCEPT ![p] = "idle"]
    /\ hnd' = [hnd EXCEPT ![p] = NoHandle]
    /\ last_op' = [NoOp EXCEPT !.kind = "drop", !.p = p, !.res = "ok"]
    /\ contended' = contended \ {p}
    /\ mem' = Below(mem, disk_len)
    /\ UNCHANGED << file_exists, disk_len, nops, files, inserted, pre_ok >>
    /\ UNCHANGED << codec_vars, disk_full, mgr_vars, heap_vars >>

(***************************************************************************)
(* Inserts through a writer's handle.                                      *)
(***************************************************************************)

SetMax(S) == CHOOSE x \in S : \A y \in S : y <= x

\* The ids inserted so far under the header slot of the n-gram.
Posted(db, ngram) ==
    { e[1] : e \in { x \in inserted : x[2] = reduce_ngram(db, ngram) } }

\* The id continues the list of the n-gram in order, less than 2^28 above
\* the last one.
InOrder(db, id, ngram) ==
    LET prev == Posted(db, ngram)
    IN  prev # {} => /\ \A i \in prev : i <= id
                     /\ id - SetMax(prev) < 268435456

\* What an insert call leaves in the shared state and in the handle.
Commit(p, db) ==
    /\ mem' = db.mem
    /\ disk_len' = db.disk_len
    /\ hnd' = [hnd EXCEPT ![p] = [filesize |-> db.filesize, raw |-> db.raw]]
    /\ snap' = [snap EXCEPT !.dirty = @ \/ db # View(p)]

\* The last id of the head block of the n-gram (lines 302-303), or -1 when
\* the n-gram has no block or its head block has no room (lines 288-295).
head_last_id(db, ngram) ==
    LET off == ngram_list_ptr(db, ngram)
        lm == get_list_meta(db, off)
    IN  IF off = 0 \/ lm[2] = 0 \/ list_is_full(db, lm[1], lm[3]) THEN 0 - 1
        ELSE ReadLE(db.mem, off + 5 + db.raw.offset_size + lm[3] - 4, 4)

\* The call has to grow the file (line 502) and the file system refuses.
growth_refused(db, r) == db.full /\ r.db.filesize # db.filesize

\* The outcome r of insert_ngram(id, ngram) through the handle of p.
ngram_inserted(p, id, ngram, r) ==
    /\ Commit(p, r.db)
    /\ last_op' = [NoOp EXCEPT
           !.kind = "insert_ngram", !.p = p, !.id = id,
           !.ngram = ngram, !.res = r.res,
           !.prev = head_last_id(View(p), ngram),
           !.grow = growth_refused(View(p), r),
           !.repeat = /\ last_op.kind = "insert_ngram"
                      /\ last_op.res = "ok" /\ last_op.p = p
                      /\ last_op.id = id /\ last_op.ngram = ngram,
           !.noop = (r.db = View(p))]
    /\ inserted' = IF r.res = "ok"
                   THEN inserted \cup {<<id, reduce_ngram(View(p), ngram)>>}
                   ELSE inserted
    /\ pre_ok' = (pre_ok /\ InOrder(View(p), id, ngram))
    /\ nops' = nops + 1
    /\ UNCHANGED << file_exists, meta_exists, meta, pc, files, contended >>
    /\ UNCHANGED << codec_vars, disk_full, mgr_vars, heap_vars >>

insert_ngram_call(p, id, ngram) ==
    /\ pc[p] = "write"
    /\ ngram_inserted(p, id, ngram, insert_ngram(View(p), id, ngram))

\* The outcome r of insert_file(contents, id) through the handle of p.
file_inserted(p, contents, id, r) ==
    /\ Commit(p, r.db)
    /\ last_op' = [NoOp EXCEPT
           !.kind = "insert_file", !.p = p, !.id = id,
           !.contents = contents, !.res = r.res,
           !.noop = (r.db = View(p))]
    /\ inserted' = inserted
           \cup { <<id, reduce_ngram(View(p), n)>> : n \in r.done }
    /\ files' = IF r.res = "ok"
                THEN files \cup {[contents |-> contents, id |-> id]}
                ELSE files
    /\ pre_ok' = /\ pre_ok
                 /\ \A e \in inserted : e[1] <= id
                 /\ \A n \in Windows(contents) : InOrder(View(p), id, n)
    /\ nops' = nops + 1
    /\ UNCHANGED << file_exists, meta_exists, meta, pc, contended >>
    /\ UNCHANGED << codec_vars, disk_full, mgr_vars, heap_vars >>

insert_file_call(p, contents, id) ==
    /\ pc[p] = "write"
    /\ file_inserted(p, contents, id, insert_file(View(p), contents, id))

(***************************************************************************)
(* The process is killed by a signal: its handle goes without Drop (the    *)
(* sidecar is not rewritten), its mapping and its lock go with it.         *)
(***************************************************************************)

killed(p, m) ==
    /\ mem' = Below(m, disk_len)
    /\ pc' = [pc EXCEPT ![p] = "dead"]
    /\ hnd' = [hnd EXCEPT ![p] = NoHandle]
    /\ contended' = contended \ {p}
    /\ UNCHANGED << file_exists, disk_len, meta_exists, meta, files, inserted,
                    pre_ok, snap >>
    /\ UNCHANGED << codec_vars, disk_full, mgr_vars, heap_vars >>

\* insert_ngram stores past the end of the file (the file could not be
\* grown): the store lands in the last page of the mapping, which
\* insert_ngram_call describes, or raises SIGSEGV, which this does.  The
\* stores made before it, all inside the file, are kept.
ngram_faulted(p, id, ngram, r) ==
    /\ r.res = "ok"
    /\ \E a \in DOMAIN r.db.mem : a >= r.db.disk_len
    /\ killed(p, r.db.mem)
    /\ last_op' = [NoOp EXCEPT
           !.kind = "insert_ngram", !.p = p, !.id = id, !.ngram = ngram,
           !.res = "SIGSEGV",
           !.prev = head_last_id(View(p), ngram),
           !.grow = growth_refused(View(p), r),
           !.noop = (Below(r.db.mem, disk_len) = mem)]
    /\ nops' = nops + 1

insert_ngram_fault(p, id, ngram) ==
    /\ pc[p] = "write"
    /\ ngram_faulted(p, id, ngram, insert_ngram(View(p), id, ngram))

\* The file system stops extending files.
fill_disk ==
    /\ ~disk_full
    /\ disk_full' = TRUE
    /\ UNCHANGED shard_vars
    /\ UNCHANGED << codec_vars, mgr_vars, heap_vars >>

(***************************************************************************)
(* insert_ngram through a handle of open_read: the file is open read-only  *)
(* and mapped with Protection::Read.                                       *)
(***************************************************************************)

\* How the call ends, r being what it would do through a writer:
\*   "panic"   pack_integer or the subtraction panics (line 313), or the
\*             file has to grow: set_len fails on the read-only File and
\*             Mmap::open(.., ReadWrite).unwrap() panics (lines 466-468);
\*   "ok"      the id is the last one of a head block with room (line 309);
\*   "SIGSEGV" the first store into the mapping (update_header or the
\*             copy of the id) kills the process.
readonly_outcome(db, r) ==
    IF r.res = "panic" \/ r.db.filesize # db.filesize THEN "panic"
    ELSE IF r.db.mem = db.mem /\ r.db.raw = db.raw THEN "ok"
    ELSE "SIGSEGV"

\* The insert goes through as it does through a writer.
readonly_stored(p, id, ngram, r, out) == ngram_inserted(p, id, ngram, r)

readonly_inserted(p, id, ngram, r, out) ==
    /\ last_op' = [NoOp EXCEPT
           !.kind = "insert_readonly", !.p = p, !.id = id, !.ngram = ngram,
           !.res = out, !.prev = head_last_id(View(p), ngram)]
    /\ nops' = nops + 1
    /\ IF out = "SIGSEGV" THEN killed(p, mem)
       ELSE /\ hnd' = [hnd EXCEPT ![p].filesize =
                         IF r.res = "panic" THEN @ ELSE r.db.filesize]
            /\ UNCHANGED << file_exists, mem, disk_len, meta_exists, meta, pc,
                            files, inserted, pre_ok, snap, contended >>
            /\ UNCHANGED << codec_vars, disk_full, mgr_vars, heap_vars >>

insert_ngram_readonly(p, id, ngram) ==
    /\ pc[p] = "read"
    /\ readonly_inserted(p, id, ngram, insert_ngram(View(p), id, ngram),
           readonly_outcome(View(p), insert_ngram(View(p), id, ngram)))

(***************************************************************************)
(* Searches through any handle.                                            *)
(***************************************************************************)

\* Patterns handed to search: the prefixes of <<1, 2, 2, 2, 2>>.
PatternSet == { SubSeq(<<1, 2, 2, 2, 2>>, 1, k) : k \in 0 .. 5 }

\* The outcome r of search(pattern) through the handle of p, found being
\* the set it returned.
searched(p, pattern, r, found) ==
    /\ last_op' = [NoOp EXCEPT
           !.kind = "search", !.p = p, !.contents = pattern,
           !.res = IF r.err = "" THEN "ok" ELSE r.err,
           !.found = found, !.looked = r.looked]
    /\ nops' = nops + 1
    /\ UNCHANGED << file_exists, mem, disk_len, meta_exists, meta, pc, hnd,
                    files, inserted, pre_ok, snap, contended >>
    /\ UNCHANGED << codec_vars, disk_full, mgr_vars, heap_vars >>

search_result(p, pattern, r) ==
    IF r.err = "" THEN \E found \in r.sets : searched(p, pattern, r, found)
    ELSE searched(p, pattern, r, {})

search_call(p, pattern) ==
    /\ Open(p)
    /\ search_result(p, pattern, search(View(p), pattern))

(***************************************************************************)
(* The shard used by several processes.                                    *)
(***************************************************************************)

\* Inputs of the inserts when several processes share the shard.
LifeNgramSet == { ngram_at(<<1, 2, 2, 2>>, 0), ngram_at(<<2, 2, 2, 2>>, 0) }

LifeFileSet == { <<1, 2, 2>>, <<1, 2, 2, 2, 2>> }

Next ==
    \/ \E p \in Procs, par \in ParamSet : create(p, par)
    \/ \E p \in Procs : create_locked(p)
    \/ \E p \in Procs : open_read(p)
    \/ \E p \in Procs : open_write(p)
    \/ \E p \in Procs : open_locked(p)
    \/ \E p \in Procs : drop(p)
    \/ /\ nops < MaxOps
       /\ \E p \in Procs, id \in IdSet, n \in LifeNgramSet :
              insert_ngram_call(p, id, n)
    \/ /\ nops < MaxOps
       /\ \E p \in Procs, id \in IdSet, f \in LifeFileSet :
              insert_file_call(p, f, id)

Spec == Init /\ [][Next]_vars

(***************************************************************************)
(* One process filling the shard, with more inputs.                        *)
(***************************************************************************)

\* Largest number of insert and search calls of the single process.
MaxIndexOps == 2

NextIndex ==
    \/ \E par \in ParamSet : create(1, par)
    \/ create_locked(1)
    \/ open_read(1)
    \/ open_write(1)
    \/ open_locked(1)
    \/ drop(1)
    \/ /\ nops < MaxIndexOps
       /\ \E id \in IdSet, n \in NgramSet : insert_ngram_call(1, id, n)
    \/ /\ nops < MaxIndexOps
       /\ \E id \in IdSet, f \in FileSet : insert_file_call(1, f, id)
    \/ /\ nops < MaxIndexOps
       /\ \E pat \in PatternSet : search_call(1, pat)

SpecIndex == Init /\ [][NextIndex]_vars

(***************************************************************************)
(* One process, with parameters outside the permitted ranges, ids far      *)
(* apart, inserts through readers and a file system that may fill up.      *)
(***************************************************************************)

\* Largest number of insert calls in this setting.
MaxShardOps == 2

ShardParamSet ==
    ParamSet \cup { [offset_size |-> 3, alignment |-> 4, ngram_size |-> 14] }

\* Ids whose differences are 2^28 and 2^28 + 1.
ShardIdSet == {1, 268435457, 268435458}

NextShard ==
    \/ \E par \in ShardParamSet : create(1, par)
    \/ create_locked(1)
    \/ open_read(1)
    \/ open_write(1)
    \/ open_locked(1)
    \/ drop(1)
    \/ fill_disk
    \/ /\ nops < MaxShardOps
       /\ \E id \in ShardIdSet, n \in LifeNgramSet :
              insert_ngram_call(1, id, n)
    \/ /\ nops < MaxShardOps
       /\ \E id \in ShardIdSet, n \in LifeNgramSet :
              insert_ngram_fault(1, id, n)
    \/ /\ nops < MaxShardOps
       /\ \E id \in ShardIdSet, n \in LifeNgramSet :
              insert_ngram_readonly(1, id, n)

SpecShard == Init /\ [][NextShard]_vars

(***************************************************************************)
(* One writer filling the blocks of a shard, insert_ngram being seen in    *)
(* two steps when it allocates a new head block: after realloc_list has    *)
(* returned (line 289) and when insert_ngram returns.                      *)
(***************************************************************************)

\* Largest number of insert_ngram and search calls in this setting.
MaxHeapOps == 4

\* (offset_size, alignment, ngram_size) of the shard: first blocks of 16 and
\* of 32 bytes, the smallest and the largest offset_size.
HeapParamSet ==
    { [offset_size |-> 4, alignment |-> 4, ngram_size |-> 14],
      [offset_size |-> 6, alignment |-> 4, ngram_size |-> 14],
      [offset_size |-> 5, alignment |-> 5, ngram_size |-> 14] }

\* File ids: their differences are 1, 2^21, 2^21 + 1 and more.
HeapIdSet == {1, 2, 2097154, 4194307}

\* Lines 278-286: the head block of the n-gram, allocated when the n-gram
\* has none, as <<db, list_off>>.
insert_ngram_list(db, ngram) ==
    LET off0 == ngram_list_ptr(db, ngram)
    IN  IF off0 = 0 THEN alloc_list(db, ngram) ELSE <<db, off0>>

\* Line 288: the head block has no room.
insert_ngram_full(db, ngram) ==
    LET got == insert_ngram_list(db, ngram)
        lm == get_list_meta(got[1], got[2])
    IN  list_is_full(db, lm[1], lm[3])

\* Lines 298-351: where insert_ngram(id, ngram) stores.  The block written
\* is at list_off and has 2^size_log bytes; update_list_meta writes its
\* prefix, and the packed delta and the raw id go to [from, upto), which is
\* empty when the id is already the last one or the call panics.  mapped is
\* the length of the file when the stores are made.
insert_ngram_stores(db, id, ngram) ==
    LET got == insert_ngram_list(db, ngram)
        lm == get_list_meta(got[1], got[2])
        full == insert_ngram_full(db, ngram)
        relist == realloc_list(got[1], got[2], ngram)
        d == IF full THEN relist[1] ELSE got[1]
        list_off == IF full THEN relist[2] ELSE got[2]
        nb_elem == IF full THEN 0 ELSE lm[2]
        nb_bytes == IF full THEN 0 ELSE lm[3]
        list_ptr == list_off + 5 + db.raw.offset_size + nb_bytes
        last_id == ReadLE(d.mem, list_ptr - 4, 4)
        len == IF nb_elem = 0 THEN 4
               ELSE IF id <= last_id \/ pack_integer(id - last_id)[2] = 0
               THEN 0
               ELSE pack_integer(id - last_id)[2] + 4
        from == IF nb_elem > 1 THEN list_ptr - 4 ELSE list_ptr
    IN  [list_off |-> list_off,
         size_log |-> IF full THEN relist[3] ELSE lm[1],
         from |-> from, upto |-> from + len, mapped |-> d.disk_len]

\* Lines 278-289: insert_ngram up to the return of realloc_list.
insert_ngram_realloc(p, id, ngram) ==
    /\ pc[p] = "write"
    /\ insert_ngram_full(View(p), ngram)
    /\ LET got == insert_ngram_list(View(p), ngram)
       IN  Commit(p, realloc_list(got[1], got[2], ngram)[1])
    /\ pc' = [pc EXCEPT ![p] = "inserting"]
    /\ ins' = [id |-> id, ngram |-> ngram]
    /\ last_op' = [NoOp EXCEPT
           !.kind = "realloc_list", !.p = p, !.id = id, !.ngram = ngram,
           !.res = "pending"]
    /\ nops' = nops + 1
    /\ UNCHANGED << file_exists, meta_exists, meta, files, inserted, pre_ok,
                    contended >>
    /\ UNCHANGED << codec_vars, disk_full, mgr_vars >>

\* Lines 290-352 after realloc_list: nb_elem = 0, nb_bytes = 0, prev_off is
\* the old head, and the id is stored in the new head block.
insert_ngram_store(p) ==
    /\ pc[p] = "inserting"
    /\ LET db == View(p)
           list_off == ngram_list_ptr(db, ins.ngram)
           lm == get_list_meta(db, list_off)
           r == update_list(db, ins.id, list_off, lm[1], 0, 0, lm[4])
       IN  /\ Commit(p, r.db)
           /\ last_op' = [NoOp EXCEPT
                  !.kind = "insert_ngram", !.p = p, !.id = ins.id,
                  !.ngram = ins.ngram, !.res = r.res]
           /\ inserted' = inserted \cup {<<ins.id, reduce_ngram(db, ins.ngram)>>}
           /\ pre_ok' = (pre_ok /\ InOrder(db, ins.id, ins.ngram))
    /\ pc' = [pc EXCEPT ![p] = "write"]
    /\ ins' = NoIns
    /\ UNCHANGED << file_exists, meta_exists, meta, nops, files, contended >>
    /\ UNCHANGED << codec_vars, disk_full, mgr_vars >>

NextHeap ==
    \/ \E par \in HeapParamSet : create(1, par)
    \/ create_locked(1)
    \/ open_write(1)
    \/ open_locked(1)
    \/ drop(1)
    \/ /\ nops < MaxHeapOps
       /\ \E id \in HeapIdSet, n \in LifeNgramSet : insert_ngram_call(1, id, n)
    \/ /\ nops < MaxHeapOps
       /\ \E id \in HeapIdSet, n \in LifeNgramSet :
              insert_ngram_realloc(1, id, n)
    \/ insert_ngram_store(1)
    \/ /\ nops < MaxHeapOps
       /\ \E pat \in PatternSet : search_call(1, pat)

SpecHeap == Init /\ [][NextHeap]_vars

(***************************************************************************)
(* A shard that inserts of other n-grams have grown: its writer goes on    *)
(* from a given raw.size with n-grams that have no block yet.  The bytes   *)
(* of the other n-grams, which these calls never read, are left out.       *)
(***************************************************************************)

\* Largest number of insert_ngram calls in this setting.
MaxGrownOps == 3

\* How many blocks away from the header table, and from the largest offset
\* that offset_size bytes can hold, the shard starts.
GrownSpan == 2

GrownParamSet ==
    { [offset_size |-> 3, alignment |-> 4, ngram_size |-> 14],
      [offset_size |-> 4, alignment |-> 4, ngram_size |-> 14],
      [offset_size |-> 5, alignment |-> 5, ngram_size |-> 14] }

\* The values of raw.size the shard starts from: just after the header
\* table, and, where 2^(8*offset_size + alignment) is an integer of the
\* model, just below it.
GrownSizes(par) ==
    { header_size(par) + k * 2 ^ par.alignment : k \in 0 .. GrownSpan }
    \cup (IF 8 * par.offset_size + par.alignment < 31
          THEN { 2 ^ (8 * par.offset_size + par.alignment)
                   - k * 2 ^ par.alignment : k \in 0 .. GrownSpan }
          ELSE {})

GrownIdSet == {1, 2}

InitGrown ==
    /\ \E par \in GrownParamSet : \E s \in GrownSizes(par) :
          LET raw == [NoRaw EXCEPT !.size = s,
                                   !.offset_size = par.offset_size,
                                   !.alignment = par.alignment,
                                   !.ngram_size = par.ngram_size]
          IN  /\ disk_len = s
              /\ meta = raw
              /\ hnd = [p \in Procs |-> IF p = 1
                                        THEN [filesize |-> s, raw |-> raw]
                                        ELSE NoHandle]
    /\ file_exists = TRUE
    /\ mem = << >>
    /\ meta_exists = TRUE
    /\ pc = [p \in Procs |-> IF p = 1 THEN "write" ELSE "idle"]
    /\ nops = 0
    /\ last_op = NoOp
    /\ files = {}
    /\ inserted = {}
    /\ pre_ok = TRUE
    /\ snap = [closed |-> FALSE, raw |-> NoRaw, dirty |-> FALSE,
               ids |-> [n \in ProbeNgrams |-> {}]]
    /\ contended = {}
    /\ disk_full = FALSE
    /\ mgr = [m \in Mgrs |-> NoMgr] /\ mfile = NoFile
    /\ m_nops = [calls |-> 0, life |-> 0]
    /\ shards = << >> /\ m_last = NoCall
    /\ ins = NoIns
    /\ c_pc = "off" /\ c_in = 0 /\ c_packed = <<0, 0>> /\ c_out = <<0, 0>>

NextGrown ==
    /\ nops < MaxGrownOps
    /\ \E id \in GrownIdSet, n \in LifeNgramSet : insert_ngram_call(1, id, n)

SpecGrown == InitGrown /\ [][NextGrown]_vars

(***************************************************************************)
(* BinacleManager: an ordered list of shards, each a BinacleFile of its    *)
(* own with its own sidecar, the flag is_full of each, and cur_index, the  *)
(* shard held open for writing.  The manager file keeps the list between   *)
(* two managers; shard k of the list is the file <db>_index<k-1>.db.       *)
(***************************************************************************)

\* Lines 261-263 of binacle.rs.
get_size(db) == db.raw.size

\* Lines 265-269 of binacle.rs: the file is cut to raw.size and mapped again.
fix_size(db) == [set_len(db, db.raw.size) EXCEPT !.filesize = db.raw.size]

\* The BinacleFile behind the handle h on the shard file sh.
shard_view(sh, h) ==
    [mem |-> sh.mem, disk_len |-> sh.disk_len, filesize |-> h.filesize,
     raw |-> h.raw, full |-> FALSE]

\* The shard file after the BinacleFile db on it has worked.
shard_of(sh, db) == [sh EXCEPT !.mem = db.mem, !.disk_len = db.disk_len]

\* BinacleFile::open_read / open_write on a shard nobody holds: the length
\* is read, the file mapped, the sidecar read.
shard_opened(sh) == [filesize |-> sh.disk_len, raw |-> sh.meta]

\* The drop of the BinacleFile held in cur_index (lines 628-634 of
\* binacle.rs), when there is one.
cur_dropped(shs, cur) ==
    IF cur.i = 0 THEN shs
    ELSE [shs EXCEPT ![cur.i].meta = drop_meta(cur),
                     ![cur.i].mem = Below(@, shs[cur.i].disk_len)]

\* Shard i is held open for writing by a manager other than m, whose
\* exclusive lock makes open_read and open_write of m wait.
held(i, m) ==
    \E o \in Mgrs \ {m} : mgr[o].pc # "none" /\ mgr[o].cur.i = i

\* Line 283: the first index that is not full, 0 when there is none.
free_index(index) ==
    IF \E i \in 1 .. Len(index) : ~index[i]
    THEN CHOOSE i \in 1 .. Len(index) :
             ~index[i] /\ \A j \in 1 .. i - 1 : index[j]
    ELSE 0

\* Lines 296-321: a new shard is created with the parameters of the manager,
\* pushed on the list, and becomes cur_index; the BinacleFile that was there
\* is dropped by the assignment.  BinacleFile::create refuses a path that
\* exists.
add_index(st) ==
    LET m == st.mgr
        header == [NoRaw EXCEPT !.offset_size = m.offset_size,
                                !.alignment = m.alignment,
                                !.ngram_size = m.ngram_size,
                                !.size = header_size(
                                    [offset_size |-> m.offset_size,
                                     alignment |-> m.alignment,
                                     ngram_size |-> m.ngram_size])]
    IN  IF \/ m.offset_size < 4 \/ m.offset_size > 8
           \/ m.alignment < 4 \/ m.alignment > 12
           \/ m.ngram_size < 14 \/ m.ngram_size > 32
        THEN [st EXCEPT !.err = "violation"]
        ELSE IF Len(st.shards) > Len(m.index)
        THEN [st EXCEPT !.err = "AlreadyExists"]
        ELSE [err |-> "",
              mgr |-> [m EXCEPT !.index = Append(@, FALSE),
                                !.cur = [i |-> Len(m.index) + 1,
                                         filesize |-> header.size,
                                         raw |-> header]],
              shards |-> Append(cur_dropped(st.shards, m.cur),
                                [mem |-> << >>, disk_len |-> header.size,
                                 meta |-> header])]

\* Lines 281-294: the first shard that is not full is opened for writing;
\* when every shard is full a new one is added.
set_cur_index(st) ==
    LET i == free_index(st.mgr.index)
    IN  IF i # 0
        THEN [err |-> "",
              mgr |-> [st.mgr EXCEPT
                         !.cur = [i |-> i,
                                  filesize |-> shard_opened(st.shards[i]).filesize,
                                  raw |-> shard_opened(st.shards[i]).raw]],
              shards |-> cur_dropped(st.shards, st.mgr.cur)]
        ELSE add_index(st)

\* Lines 116-125: the file went through insert_file of the shard in
\* cur_index, with outcome r; the counters move, and a shard grown beyond
\* max_index_size is marked full and cut to its size.  A panic of the shard
\* leaves what it had written.
shard_filled(st, id, r) ==
    LET i == st.mgr.cur.i
        sealed == get_size(r.db) > st.mgr.max_index_size
        db == IF sealed THEN fix_size(r.db) ELSE r.db
    IN  IF r.res = "panic"
        THEN [err |-> "panic",
              mgr |-> [st.mgr EXCEPT !.cur = [i |-> i,
                                              filesize |-> r.db.filesize,
                                              raw |-> r.db.raw]],
              shards |-> [st.shards EXCEPT ![i] = shard_of(@, r.db)]]
        ELSE [err |-> "",
              mgr |-> [st.mgr EXCEPT
                         !.nb_file = @ + 1,
                         !.last_id = id,
                         !.index[i] = sealed,
                         !.cur = [i |-> i, filesize |-> db.filesize,
                                  raw |-> db.raw]],
              shards |-> [st.shards EXCEPT ![i] = shard_of(@, db)]]

\* The arm of lines 116-131, on a manager whose cur_index is a shard that
\* is not full.
insert_in_cur(st, contents, id) ==
    IF st.err # "" THEN st
    ELSE shard_filled(st, id,
             insert_file(shard_view(st.shards[st.mgr.cur.i], st.mgr.cur),
                         contents, id))

\* Lines 113-145: BinacleManager::insert_file. With no cur_index, or a full
\* one, set_cur_index runs first and the call is made again.
manager_insert_file(st, contents, id) ==
    IF st.mgr.cur.i # 0 /\ ~st.mgr.index[st.mgr.cur.i]
    THEN insert_in_cur(st, contents, id)
    ELSE insert_in_cur(set_cur_index(st), contents, id)

RECURSIVE search_index(_, _, _, _, _)
RECURSIVE searched_index(_, _, _, _, _, _)

\* A union that keeps the ids of the last shard only.
searched_index_last(shs, n, pattern, i, acc, r) ==
    IF r.err # ""
    THEN [err |-> r.err, sets |-> {}]
    ELSE search_index(shs, n, pattern, i + 1, r.sets)

\* Lines 218-219: try! on the shard's answer r, then set_ids.extend(ids).
searched_index(shs, n, pattern, i, acc, r) ==
    IF r.err # ""
    THEN [err |-> r.err, sets |-> {}]
    ELSE search_index(shs, n, pattern, i + 1,
                      { a \cup b : a \in acc, b \in r.sets })

\* Lines 215-220: the loop over the n shards of meta.index from shard i on,
\* acc being the values set_ids can have so far.
search_index(shs, n, pattern, i, acc) ==
    IF i > n
    THEN [err |-> "", sets |-> acc]
    ELSE searched_index(shs, n, pattern, i, acc,
             search(shard_view(shs[i], shard_opened(shs[i])), pattern))

\* Lines 212-222 of BinacleManager::search: every shard of the list is
\* opened read-only and searched.
manager_search(m, pattern) ==
    search_index(shards, Len(mgr[m].index), pattern, 1, { {} })

\* The number of decimal digits of n.
RECURSIVE digits(_)
digits(n) == IF n < 10 THEN 1 ELSE 1 + digits(n \div 10)

\* The length of the name of the manager file.
PathLen == 2

\* The length of {"path":"<db>_index<k-1>.db","is_full":<bool>}.
index_len(index, k) ==
    22 + PathLen + 9 + digits(k - 1) + (IF index[k] THEN 4 ELSE 5)

RECURSIVE index_sum(_, _)
index_sum(index, k) ==
    IF k > Len(index) THEN 0
    ELSE index_len(index, k) + (IF k > 1 THEN 1 ELSE 0)
             + index_sum(index, k + 1)

\* The length of json::encode(meta) (line 336), is_map being false.
json_len(m) ==
    109 + 5 + digits(m.nb_file) + digits(m.last_id)
        + digits(m.max_index_size) + digits(m.offset_size)
        + digits(m.alignment) + digits(m.ngram_size)
        + index_sum(m.index, 1)

\* The BinacleMeta of manager record g.
meta_of(g) ==
    [nb_file |-> g.nb_file, last_id |-> g.last_id,
     max_index_size |-> g.max_index_size, offset_size |-> g.offset_size,
     alignment |-> g.alignment, ngram_size |-> g.ngram_size,
     index |-> g.index]

\* Lines 335-340: write_meta writes the encoding at the start of the file
\* and leaves what was beyond it.
write_meta(f, g) ==
    [exists |-> TRUE, meta |-> meta_of(g), json |-> json_len(meta_of(g)),
     len |-> Max(f.len, json_len(meta_of(g)))]

\* Lines 52-86: BinacleManager::create.
manager_create(m, par) ==
    /\ mgr[m].pc = "none"
    /\ IF mfile.exists
       THEN /\ m_last' = [NoCall EXCEPT !.kind = "create", !.m = m,
                                        !.res = "AlreadyExists"]
            /\ UNCHANGED << mgr, mfile >>
       ELSE /\ mgr' = [mgr EXCEPT ![m] =
                         [NoMgr EXCEPT !.pc = "live",
                                       !.max_index_size = par.max_index_size,
                                       !.offset_size = 5,
                                       !.alignment = par.alignment,
                                       !.ngram_size = par.ngram_size]]
            /\ mfile' = write_meta(mfile, mgr'[m])
            /\ m_last' = [NoCall EXCEPT !.kind = "create", !.m = m,
                                        !.res = "ok"]
    /\ m_nops' = [m_nops EXCEPT !.life = @ + 1]
    /\ UNCHANGED << shards, shard_vars, codec_vars, disk_full, heap_vars >>

\* Lines 89-109: BinacleManager::open. read_meta panics on a file that is
\* not one JSON document (line 331).
manager_open(m) ==
    /\ mgr[m].pc = "none"
    /\ mfile.exists
    /\ IF mfile.json # mfile.len
       THEN /\ m_last' = [NoCall EXCEPT !.kind = "open", !.m = m,
                                        !.res = "panic"]
            /\ UNCHANGED mgr
       ELSE /\ mgr' = [mgr EXCEPT ![m] =
                         [NoMgr EXCEPT
                            !.pc = "live",
                            !.max_index_size = mfile.meta.max_index_size,
                            !.offset_size = mfile.meta.offset_size,
                            !.alignment = mfile.meta.alignment,
                            !.ngram_size = mfile.meta.ngram_size,
                            !.nb_file = mfile.meta.nb_file,
                            !.last_id = mfile.meta.last_id,
                            !.index = mfile.meta.index]]
            /\ m_last' = [NoCall EXCEPT !.kind = "open", !.m = m,
                                        !.res = "ok"]
    /\ m_nops' = [m_nops EXCEPT !.life = @ + 1]
    /\ UNCHANGED << mfile, shards, shard_vars, codec_vars, disk_full, heap_vars >>

\* Lines 384-403, and the drop of cur_index that follows: the manager file
\* is written, then the sidecar of the shard that was open.
manager_drop(m) ==
    /\ mgr[m].pc = "live"
    /\ mfile' = write_meta(mfile, mgr[m])
    /\ shards' = cur_dropped(shards, mgr[m].cur)
    /\ mgr' = [mgr EXCEPT ![m] = NoMgr]
    /\ m_last' = [NoCall EXCEPT !.kind = "drop", !.m = m, !.res = "ok"]
    /\ m_nops' = [m_nops EXCEPT !.life = @ + 1]
    /\ UNCHANGED << shard_vars, codec_vars, disk_full, heap_vars >>

\* The call returned, st being what the manager and the shards are then. A
\* panic unwinds through the drop of the manager.
manager_inserted(m, contents, id, st) ==
    /\ IF st.err = "panic"
       THEN /\ mgr' = [mgr EXCEPT ![m] = NoMgr]
            /\ shards' = cur_dropped(st.shards, st.mgr.cur)
            /\ mfile' = write_meta(mfile, st.mgr)
       ELSE /\ mgr' = [mgr EXCEPT ![m] = st.mgr]
            /\ shards' = st.shards
            /\ mfile' = mfile
    /\ m_last' = [NoCall EXCEPT
                    !.kind = "insert_file",
                    !.m = m,
                    !.res = IF st.err = "" THEN "ok" ELSE st.err,
                    !.id = id,
                    !.contents = contents,
                    !.target = st.mgr.cur.i]
    /\ m_nops' = [m_nops EXCEPT !.calls = @ + 1]
    /\ UNCHANGED << shard_vars, codec_vars, disk_full, heap_vars >>

\* insert_file on manager m; open_write in set_cur_index waits while
\* another manager holds the shard.
manager_insert_file_call(m, contents, id) ==
    /\ mgr[m].pc = "live"
    /\ \/ mgr[m].cur.i # 0 /\ ~mgr[m].index[mgr[m].cur.i]
       \/ free_index(mgr[m].index) = 0
       \/ ~held(free_index(mgr[m].index), m)
    /\ manager_inserted(m, contents, id,
           manager_insert_file([err |-> "", mgr |-> mgr[m],
                                shards |-> shards], contents, id))

\* Line 210: search closes cur_index first.
manager_search_call(m, pattern) ==
    /\ mgr[m].pc = "live"
    /\ mgr' = [mgr EXCEPT ![m].cur = NoCur, ![m].pc = "searching",
                          ![m].pattern = pattern]
    /\ shards' = cur_dropped(shards, mgr[m].cur)
    /\ m_last' = [NoCall EXCEPT !.kind = "search", !.m = m,
                                !.res = "pending", !.contents = pattern]
    /\ m_nops' = [m_nops EXCEPT !.calls = @ + 1]
    /\ UNCHANGED << mfile, shard_vars, codec_vars, disk_full, heap_vars >>

manager_searched(m, r) ==
    /\ mgr' = [mgr EXCEPT ![m].pc = "live", ![m].pattern = << >>]
    /\ \E found \in (IF r.err = "" THEN r.sets ELSE { {} }) :
           m_last' = [NoCall EXCEPT
                        !.kind = "search",
                        !.m = m,
                        !.res = IF r.err = "" THEN "ok" ELSE r.err,
                        !.contents = mgr[m].pattern,
                        !.found = found]
    /\ UNCHANGED << mfile, shards, m_nops, shard_vars, codec_vars,
                    disk_full, heap_vars >>

\* Lines 215-222: the loop of search, once no shard of the list is held by
\* a writer.
manager_search_loop(m) ==
    /\ mgr[m].pc = "searching"
    /\ \A i \in 1 .. Len(mgr[m].index) : ~held(i, m)
    /\ manager_searched(m, manager_search(m, mgr[m].pattern))

\* Largest number of insert_file and search calls made on the managers.
MaxMgrOps == 4

\* Largest number of managers created, opened and dropped.
MaxMgrLife == 4

\* max_index_size is the size of an empty shard, or of one with a block.
MgrParamSet ==
    { [max_index_size |-> s, alignment |-> 4, ngram_size |-> 14] :
          s \in {81936, 81952} }

MgrFileSet == { << 1, 2, 2, 2 >>, << 2, 2, 2, 2 >> }

MgrIdSet == {1, 2}

MgrPatternSet == { << 1, 2, 2, 2 >>, << 1, 2, 2 >> }

NextManager ==
    \/ /\ m_nops.life < MaxMgrLife
       /\ \E par \in MgrParamSet : manager_create(1, par)
    \/ /\ m_nops.life < MaxMgrLife
       /\ \E m \in Mgrs : manager_open(m)
    \/ /\ m_nops.life < MaxMgrLife
       /\ \E m \in Mgrs : manager_drop(m)
    \/ /\ m_nops.calls < MaxMgrOps
       /\ \E m \in Mgrs, contents \in MgrFileSet, id \in MgrIdSet :
              manager_insert_file_call(m, contents, id)
    \/ /\ m_nops.calls < MaxMgrOps
       /\ \E m \in Mgrs, pattern \in MgrPatternSet :
              manager_search_call(m, pattern)
    \/ \E m \in Mgrs : manager_search_loop(m)

SpecManager == Init /\ [][NextManager]_vars

(***************************************************************************)
(* The codec on its own: a value is packed, the packed word unpacked.      *)
(***************************************************************************)

\* How far around each width boundary the codec's inputs reach.
CodecSpan == 4

CodecInputs ==
    { v \in { b + d : b \in {0, 128, 16384, 2097152, 268435456},
                      d \in (0 - CodecSpan) .. CodecSpan } : v >= 0 }

InitCodec ==
    /\ file_exists = FALSE /\ mem = << >> /\ disk_len = 0
    /\ meta_exists = FALSE /\ meta = NoRaw
    /\ pc = [p \in Procs |-> "idle"]
    /\ hnd = [p \in Procs |-> NoHandle]
    /\ nops = 0 /\ last_op = NoOp /\ files = {} /\ inserted = {}
    /\ pre_ok = TRUE
    /\ snap = [closed |-> FALSE, raw |-> NoRaw, dirty |-> FALSE,
               ids |-> [n \in ProbeNgrams |-> {}]]
    /\ contended = {}
    /\ disk_full = FALSE
    /\ mgr = [m \in Mgrs |-> NoMgr] /\ mfile = NoFile /\ m_nops = [calls |-> 0, life |-> 0]
    /\ shards = << >> /\ m_last = NoCall
    /\ ins = NoIns
    /\ c_pc = "in" /\ c_in \in CodecInputs
    /\ c_packed = <<0, 0>> /\ c_out = <<0, 0>>

codec_pack ==
    /\ c_pc = "in"
    /\ c_packed' = pack_integer(c_in)
    /\ c_pc' = IF pack_integer(c_in)[2] = 0 THEN "panic" ELSE "packed"
    /\ UNCHANGED << c_in, c_out, disk_full, mgr_vars, heap_vars >>
    /\ UNCHANGED shard_vars

codec_unpack ==
    /\ c_pc = "packed"
    /\ c_out' = unpack_integer(c_packed[1])
    /\ c_pc' = "done"
    /\ UNCHANGED << c_in, c_packed, disk_full, mgr_vars, heap_vars >>
    /\ UNCHANGED shard_vars

NextCodec == codec_pack \/ codec_unpack

SpecCodec == InitCodec /\ [][NextCodec]_vars

(***************************************************************************)
(* The shard with the lock calls returning as soon as they can.            *)
(***************************************************************************)

\* A blocked lock call returns once the lock stays available to it.
Fairness == \A p \in Procs : WF_vars(open_locked(p))

SpecFair == Spec /\ Fairness

(***************************************************************************)
(* Properties of insert_file, search and the posting lists.                *)
(***************************************************************************)

\* Substrings of at least 4 bytes of a byte string.
Substrings(bytes) ==
    { SubSeq(bytes, i, j) : i \in 1 .. Len(bytes), j \in 1 .. Len(bytes) }
        \ { x \in { SubSeq(bytes, i, j) :
                      i \in 1 .. Len(bytes), j \in 1 .. Len(bytes) } :
              Len(x) < 4 }

\* C1: after insert_file(f, i) returned Ok, the id i is in
\* get_ids_by_ngram(w) and get_ids_size_by_ngram(w) is at least 1 for every
\* 4-byte window w of f, whichever read buffer the bytes of the window
\* fell in.
C1_EveryWindowPosted ==
    (last_op.kind = "insert_file" /\ last_op.res = "ok")
        => \A w \in Windows(last_op.contents) :
               /\ last_op.id \in get_ids_by_ngram(View(last_op.p), w)
               /\ get_ids_size_by_ngram(View(last_op.p), w) >= 1

\* C2: once files were inserted with non-decreasing ids, search(p) returns
\* the id of every inserted file that contains p, for every byte string p
\* of at least 4 bytes.
C2_NoFalseNegative ==
    pre_ok =>
        \A p \in Procs : Open(p) =>
            \A f \in files : \A pat \in Substrings(f.contents) :
                /\ search(View(p), pat).err = ""
                /\ \A res \in search(View(p), pat).sets : f.id \in res

\* C3: when the ids of each n-gram were inserted in order, each less than
\* 2^28 above the previous one, get_ids_by_ngram(n) is exactly the set of
\* the ids inserted for n.
C3_ExactPostingList ==
    pre_ok =>
        \A p \in Procs : Open(p) =>
            \A n \in ProbeNgrams :
                get_ids_by_ngram(View(p), n) = Posted(View(p), n)

\* The width the variable-byte code gives a value.
codec_width(v) ==
    IF v < 128 THEN 1
    ELSE IF v < 16384 THEN 2
    ELSE IF v < 2097152 THEN 3
    ELSE 4

\* C4: for every v below 2^28, pack_integer(v) is (p, n) with
\* unpack_integer(p) = (v, n), and n is 1, 2, 3 or 4 for v below 2^7, 2^14,
\* 2^21 and 2^28.
C4_RoundTrip ==
    c_in < 268435456 =>
        /\ c_pc # "panic"
        /\ c_pc \in {"packed", "done"} => c_packed[2] = codec_width(c_in)
        /\ c_pc = "done" => c_out = <<c_in, c_packed[2]>>

\* C5: insert_ngram(i, n) right after insert_ngram(i, n) returned Ok changes
\* nothing: no byte of the file, no block, no counter.
C5_RepeatIsNoop ==
    (last_op.kind = "insert_ngram" /\ last_op.repeat)
        => (last_op.res = "ok" /\ last_op.noop)

SetMin(S) == CHOOSE x \in S : \A y \in S : x <= y

\* Every id posted so far is less than 2^21 above the first one of its slot.
NarrowIds(db) ==
    \A n \in ProbeNgrams :
        Posted(db, n) # {} =>
            SetMax(Posted(db, n)) - SetMin(Posted(db, n)) < 2097152

\* C6: after inserts with non-decreasing ids, repeated ids included,
\* get_ids_size_by_ngram(n) is the number of distinct ids in
\* get_ids_by_ngram(n), for every alignment.
C6_SizeIsCardinality ==
    pre_ok =>
        \A p \in Procs : (Open(p) /\ NarrowIds(View(p))) =>
            \A n \in ProbeNgrams :
                get_ids_size_by_ngram(View(p), n)
                    = Cardinality(get_ids_by_ngram(View(p), n))

\* The parameters are in the permitted ranges.
InRange(raw) ==
    /\ raw.offset_size \in 4 .. 6
    /\ raw.alignment \in 4 .. 12
    /\ raw.ngram_size \in 14 .. 32

\* C11: create with offset_size outside [4, 6], alignment outside [4, 12]
\* or ngram_size outside [14, 32] fails and creates neither the shard file
\* nor the sidecar.
C11_InvalidParameter ==
    /\ \A p \in Procs :
           pc[p] \in {"creating", "write"} => InRange(hnd[p].raw)
    /\ meta_exists => InRange(meta)
    /\ last_op.kind = "create" /\ last_op.res \in {"pending", "ok"}
           => InRange(hnd[last_op.p].raw)

\* C13: insert_ngram of an id 2^28 or more above the last id of the head
\* block returns the error EncoderOverflow and changes nothing.
C13_EncoderOverflow ==
    (/\ last_op.kind = "insert_ngram"
     /\ last_op.prev >= 0
     /\ last_op.id - last_op.prev >= 268435456)
        => (last_op.res = "EncoderOverflow" /\ last_op.noop)

\* C14: when the file cannot be grown for an allocation, insert_ngram
\* returns the error CapacityExhausted and shard.size, the recorded file
\* length, the header slots and the blocks are unchanged.
C14_CapacityExhausted ==
    (last_op.kind = "insert_ngram" /\ last_op.grow)
        => (last_op.res = "CapacityExhausted" /\ last_op.noop)

\* C17 as stated: after create succeeded, shard.size and the length of the
\* file are equal and are the least multiple of 2^alignment that is at
\* least offset_size * 2^ngram_size.
C17_LeastMultiple ==
    (last_op.kind = "create" /\ last_op.res = "ok"
                             /\ InRange(hnd[last_op.p].raw))
        => LET raw == hnd[last_op.p].raw
               table == raw.offset_size * (2 ^ raw.ngram_size)
               unit == 2 ^ raw.alignment
           IN  /\ raw.size = disk_len
               /\ raw.size = ((table + unit - 1) \div unit) * unit

\* C17, amended: after create succeeded, shard.size and the length of the
\* file are equal and are the least multiple of 2^alignment that is greater
\* than offset_size * 2^ngram_size: a full 2^alignment is added when the
\* header table is already a multiple of 2^alignment.
C17_NextMultiple ==
    (last_op.kind = "create" /\ last_op.res = "ok"
                             /\ InRange(hnd[last_op.p].raw))
        => LET raw == hnd[last_op.p].raw
               table == raw.offset_size * (2 ^ raw.ngram_size)
               unit == 2 ^ raw.alignment
           IN  /\ raw.size = disk_len
               /\ raw.size % unit = 0
               /\ raw.size > table
               /\ raw.size - unit <= table

\* create succeeded with a header table that is a multiple of 2^alignment.
C17_Created ==
    /\ last_op.kind = "create" /\ last_op.res = "ok"
    /\ InRange(hnd[last_op.p].raw)
    /\ (hnd[last_op.p].raw.offset_size * (2 ^ hnd[last_op.p].raw.ngram_size))
           % (2 ^ hnd[last_op.p].raw.alignment) = 0
    /\ disk_len = hnd[last_op.p].raw.size

\* The step is an insert_ngram or the close of the reader p.
ReaderStep(p) ==
    /\ pc[p] = "read"
    /\ last_op'.p = p
    /\ last_op'.kind \in {"insert_readonly", "drop"}

\* The shard file and the sidecar are as they were.
ShardUntouched ==
    UNCHANGED << file_exists, mem, disk_len, meta_exists, meta >>

\* C18 as stated: an insert_ngram through a handle of open_read fails, and
\* the header table, the blocks, shard.size and the sidecar are the same
\* after it, and after the handle is closed, as before.
C18_ReaderInsertFails ==
    /\ [][\A p \in Procs : ReaderStep(p) => ShardUntouched]_vars
    /\ [](last_op.kind = "insert_readonly" => last_op.res # "ok")

\* C18, amended: an insert_ngram through a handle of open_read fails (a
\* panic or SIGSEGV) or, when the id is the last one of a head block with
\* room, returns Ok and stores nothing; the header table, the blocks,
\* shard.size and the sidecar are the same after it, and after the handle
\* is closed, as before.
C18_ReaderNeverMutates ==
    [][\A p \in Procs : ReaderStep(p) =>
          /\ ShardUntouched
          /\ last_op'.kind = "insert_readonly" =>
                \/ last_op'.res \in {"panic", "SIGSEGV"}
                \/ /\ last_op'.res = "ok"
                   /\ last_op'.id = last_op'.prev
                   /\ hnd' = hnd]_vars

\* An insert through a reader was stopped at its first store, on a shard
\* that holds ids and has room left in its file.
C18_ReaderStopped ==
    /\ last_op.kind = "insert_readonly" /\ last_op.res = "SIGSEGV"
    /\ inserted # {}
    /\ snap.raw.size < disk_len

\* The header slots that hold an offset.
used_slots(db) ==
    { a \div db.raw.offset_size :
        a \in { x \in DOMAIN db.mem :
                  x < db.raw.offset_size * (2 ^ db.raw.ngram_size) } }

RECURSIVE chain_blocks(_, _)
\* <<offset, size_log>> of the blocks from list_off along the prev links.
chain_blocks(db, list_off) ==
    IF list_off = 0 THEN {}
    ELSE {<<list_off, get_list_meta(db, list_off)[1]>>}
             \cup chain_blocks(db, get_list_meta(db, list_off)[4])

\* The blocks reachable from the header table.
all_blocks(db) ==
    UNION { chain_blocks(db, ngram_list_ptr(db, slot)) :
              slot \in used_slots(db) }

RECURSIVE sum_sizes(_)
sum_sizes(blocks) ==
    IF blocks = {} THEN 0
    ELSE LET b == CHOOSE x \in blocks : TRUE
         IN  2 ^ b[2] + sum_sizes(blocks \ {b})

\* C15: after create and any inserts, shard.size is the size create gave
\* the header plus the sum of 2^size_log over the blocks reachable from the
\* header table through prev links; the blocks lie between the header and
\* shard.size and no two of them overlap.
C15_AllocatorAccounting ==
    \A p \in Procs : pc[p] = "write" =>
        /\ hnd[p].raw.size
               = header_size(hnd[p].raw) + sum_sizes(all_blocks(View(p)))
        /\ \A b \in all_blocks(View(p)) :
               /\ b[1] >= header_size(hnd[p].raw)
               /\ b[1] + 2 ^ b[2] <= hnd[p].raw.size
        /\ \A b, c \in all_blocks(View(p)) :
               b # c => (b[1] + 2 ^ b[2] <= c[1] \/ c[1] + 2 ^ c[2] <= b[1])

\* A writer holds a shard with a chain of two blocks of different sizes.
C15_ChainOfTwo ==
    \E p \in Procs :
        /\ pc[p] = "write"
        /\ \E b, c \in all_blocks(View(p)) :
               /\ get_list_meta(View(p), b[1])[4] = c[1]
               /\ b[2] > c[2]

\* C12: search returns the error "pattern size is < 4" for every pattern of
\* length 0 to 3, without looking up any n-gram, and a set of ids for
\* every pattern of length 4 or more.
C12_PatternTooShort ==
    last_op.kind = "search" =>
        IF Len(last_op.contents) < 4
        THEN /\ last_op.res = "pattern size is < 4"
             /\ last_op.looked = {} /\ last_op.found = {}
        ELSE /\ last_op.res = "ok"
             /\ last_op.looked = Windows(last_op.contents)
             /\ last_op.found \subseteq IdSet

\* A pattern of 3 bytes was refused on a shard that holds ids.
C12_Refused3 ==
    /\ last_op.kind = "search" /\ Len(last_op.contents) = 3
    /\ last_op.res = "pattern size is < 4"
    /\ inserted # {}

(***************************************************************************)
(* Properties of the shard across handles.                                 *)
(***************************************************************************)

\* C7: what was inserted before a writer closed is returned unchanged by
\* every later handle, and a reopened writer starts from the size the
\* closed one had reached.
C7_Persistence ==
    \A p \in Procs : (Open(p) /\ snap.closed) =>
        /\ \A n \in ProbeNgrams :
               snap.ids[n] \subseteq get_ids_by_ngram(View(p), n)
        /\ ~snap.dirty => /\ Visible(View(p)) = snap.ids
                          /\ hnd[p].raw.size = snap.raw.size

\* A reopened writer has added an id to a list written before the close.
C7_Reopened ==
    \E p \in Procs : \E n \in ProbeNgrams :
        /\ pc[p] = "write" /\ snap.closed /\ snap.dirty
        /\ snap.ids[n] # {}
        /\ snap.ids[n] # get_ids_by_ngram(View(p), n)
        /\ hnd[p].raw.size > snap.raw.size

\* C8: at most one writer handle is open, and no reader handle is open
\* while a writer handle is; reader handles may be open together.
C8_LockDiscipline ==
    /\ Cardinality({ p \in Procs : pc[p] = "write" }) <= 1
    /\ (\E p \in Procs : pc[p] = "write")
           => \A q \in Procs : pc[q] # "read"

\* Two reader handles are open at the same time.
C8_TwoReaders == Cardinality({ p \in Procs : pc[p] = "read" }) >= 2

\* The step in which p obtains its handle.
Obtains(p) ==
    /\ pc[p] \in {"wait_read", "wait_write"}
    /\ pc'[p] \in {"read", "write"}

\* The lock p waits for is available.
Available(p) ==
    \/ pc[p] = "wait_read" /\ lock_shared(p)
    \/ pc[p] = "wait_write" /\ lock_exclusive(p)

\* C9: an opener obtains no handle while a writer handle is open; it
\* obtains one once the lock is left to it, and the handle then shows the
\* metadata and the ids of the writer that closed.
C9_SecondOpener ==
    /\ [][\A p \in Procs : Obtains(p) =>
            /\ \A q \in Procs \ {p} : pc[q] # "write"
            /\ snap.closed
            /\ hnd'[p].raw = snap.raw
            /\ Visible(ViewOf(mem', disk_len', hnd'[p])) = snap.ids]_vars
    /\ \A p \in Procs :
           Available(p) ~> (Open(p) \/ pc[p] = "idle" \/ ~Available(p))

\* A process that asked to open while a writer was open holds a handle that
\* shows what that writer inserted.
C9_Served ==
    \E p \in contended : \E n \in ProbeNgrams :
        /\ Open(p) /\ last_op.kind = "open" /\ last_op.p = p
        /\ snap.closed /\ snap.ids[n] # {}
        /\ get_ids_by_ngram(View(p), n) = snap.ids[n]
        /\ hnd[p].raw.nb_file = snap.raw.nb_file

sealed(i) ==
    \/ \E m \in Mgrs : /\ mgr[m].pc # "none"
                       /\ i <= Len(mgr[m].index)
                       /\ mgr[m].index[i]
    \/ /\ mfile.exists
       /\ i <= Len(mfile.meta.index)
       /\ mfile.meta.index[i]

\* shard.size of shard i: raw.size of the BinacleFile of the manager that
\* holds the shard open, of the sidecar when nobody does.
shard_raw(i) ==
    IF \E m \in Mgrs : mgr[m].cur.i = i
    THEN mgr[CHOOSE m \in Mgrs : mgr[m].cur.i = i].cur.raw
    ELSE shards[i].meta

\* C16: from the moment a manager has sealed a shard (is_full set and
\* fix_size run), the length of the shard's file on disk is exactly the
\* shard's size, and no later insert, search or close changes that length.
C16_SealedLength ==
    /\ [](\A i \in 1 .. Len(shards) :
              sealed(i) => shards[i].disk_len = shard_raw(i).size)
    /\ [][\A i \in 1 .. Len(shards) :
              sealed(i) => shards'[i].disk_len = shards[i].disk_len]_vars

\* C19: a successful insert_file of a manager puts the file in exactly one
\* shard, the first one in list order that the manager had as not full, or
\* a new shard appended to the list when, and only when, it had every shard
\* as full; that shard is marked full exactly when its size after the
\* insert is larger than max_index_size; a shard that has been marked full
\* is never written again.
C19_Routing ==
    [][ /\ \A j \in 1 .. Len(shards) :
             sealed(j) =>
                /\ shards'[j].mem = shards[j].mem
                /\ shards'[j].disk_len = shards[j].disk_len
                /\ shard_raw(j)'.nb_file = shard_raw(j).nb_file
        /\ (m_last'.kind = "insert_file" /\ m_last'.res = "ok"
               /\ m_nops'.calls # m_nops.calls) =>
             LET m == m_last'.m
                 t == m_last'.target
                 n == Len(mgr[m].index)
             IN  /\ t \in 1 .. n + 1
                 /\ \A j \in 1 .. t - 1 : mgr[m].index[j]
                 /\ t <= n => ~mgr[m].index[t]
                 /\ Len(mgr'[m].index) = IF t = n + 1 THEN n + 1 ELSE n
                 /\ t = n + 1 => Len(shards') = Len(shards) + 1
                 /\ mgr'[m].cur.i = t
                 /\ mgr'[m].cur.raw.nb_file =
                        (IF t = n + 1 THEN 0 ELSE shard_raw(t).nb_file) + 1
                 /\ mgr'[m].cur.raw.last_id = m_last'.id
                 /\ mgr'[m].index[t] =
                        (mgr'[m].cur.raw.size > mgr[m].max_index_size)
                 /\ \A j \in 1 .. Len(shards) :
                        j # t => /\ j <= n => mgr'[m].index[j] = mgr[m].index[j]
                                 /\ shards'[j].mem = shards[j].mem
                                 /\ shards'[j].disk_len = shards[j].disk_len
                                 /\ shard_raw(j)'.nb_file =
                                        shard_raw(j).nb_file ]_vars

\* The ids search finds in shard i, opened read-only.
shard_search(i, pattern) ==
    search(shard_view(shards[i], shard_opened(shards[i])), pattern)

\* C20: a successful search of a manager returns exactly the union, over
\* all the shards of the manager's list, full or not, the one it was
\* writing included, of what search returns on each.
C20_SearchIsUnion ==
    (m_last.kind = "search" /\ m_last.res = "ok") =>
        LET n == Len(mgr[m_last.m].index)
        IN  /\ \A i \in 1 .. n :
                   /\ shard_search(i, m_last.contents).err = ""
                   /\ \A s \in shard_search(i, m_last.contents).sets :
                          s \subseteq m_last.found
            /\ m_last.found \subseteq
                   UNION { UNION shard_search(i, m_last.contents).sets :
                               i \in 1 .. n }

\* The search found one id in a full shard and another in the shard that
\* the manager was writing.
C20_BothShards ==
    /\ m_last.kind = "search"
    /\ m_last.res = "ok"
    /\ mgr[m_last.m].index = << TRUE, FALSE >>
    /\ m_last.found = {1, 2}
    /\ \E s \in shard_search(1, m_last.contents).sets : s = {1}
    /\ \E s \in shard_search(2, m_last.contents).sets : s = {2}

\* C21: over any sequence of insert calls with ids chosen by the caller, the
\* last_id of a manager never decreases.
C21_LastIdMonotonic ==
    [][\A m \in Mgrs :
          (mgr[m].pc # "none" /\ mgr'[m].pc # "none") =>
              mgr'[m].last_id >= mgr[m].last_id]_vars

RECURSIVE chain(_, _)
\* The offsets of the blocks of a chain, from the block at list_off on, as
\* long as the offsets decrease.
chain(db, list_off) ==
    IF list_off = 0 THEN {}
    ELSE LET prev == get_list_meta(db, list_off)[4]
         IN  {list_off} \cup (IF prev < list_off THEN chain(db, prev) ELSE {})

\* The offsets of the blocks the header table leads to.
blocks(db) ==
    UNION { chain(db, ngram_list_ptr(db, n)) : n \in LifeNgramSet }

\* Size of the prefix of a block.
prefix(db) == 5 + db.raw.offset_size

\* The writer is between two calls.
AtRest == pc[1] = "write"

\* C22 (as stated): after every insert_ngram, every block has room for its
\* nb_bytes, 4 more bytes of hot tail and its prefix:
\* nb_bytes + 4 + 5 + offset_size <= 2^size_log.
C22_HotTailRoom ==
    AtRest =>
        \A b \in blocks(View(1)) :
            LET lm == get_list_meta(View(1), b)
            IN  lm[3] + 4 + prefix(View(1)) <= 2 ^ lm[1]

\* C22 (amended): after every insert_ngram, every block holds its prefix and
\* its nb_bytes, the hot tail being counted in nb_bytes:
\* nb_bytes + 5 + offset_size <= 2^size_log.
C22_PayloadFits ==
    AtRest =>
        \A b \in blocks(View(1)) :
            LET lm == get_list_meta(View(1), b)
            IN  /\ lm[3] + prefix(View(1)) <= 2 ^ lm[1]
                /\ lm[2] >= 1 => lm[3] >= 4

\* A block of 32 bytes holds three ids that are each 4 bytes packed: 16
\* bytes of payload, hot tail included.
C22_FilledBlock ==
    /\ AtRest
    /\ last_op.kind = "insert_ngram" /\ last_op.res = "ok"
    /\ \E b \in blocks(View(1)) :
           LET lm == get_list_meta(View(1), b)
           IN  lm[1] = 5 /\ lm[2] = 3 /\ lm[3] = 16

\* The shard as the writer's handle has it after the step.
PostView == ViewOf(mem', disk_len', hnd'[1])

\* The step allocates a new head block for the n-gram, whose head block was
\* at off with the fields lm: the new block has 2^min(size_log + 1, 12)
\* bytes, is what the header slot points to, links back to the old one, and
\* the old one keeps its nb_elem.
Reallocated(ngram, off, lm) ==
    LET new == ngram_list_ptr(PostView, ngram)
    IN  /\ new = View(1).raw.size
        /\ get_list_meta(PostView, new)[1] = Min(lm[1] + 1, 12)
        /\ get_list_meta(PostView, new)[4] = off
        /\ get_list_meta(PostView, off)[2] = lm[2]

\* C23: insert_ngram allocates a new block exactly when
\* nb_bytes + 4 + 5 + offset_size + 4 does not fit in the 2^size_log bytes of
\* the head block; the new block has 2^min(size_log + 1, 12) bytes, becomes
\* the head with prev pointing to the old head, and starts with nb_elem = 0
\* and nb_bytes = 0; the old block keeps its nb_elem.
C23_Overflow ==
    [][\A n \in LifeNgramSet :
          LET off == ngram_list_ptr(View(1), n)
              lm == get_list_meta(View(1), off)
              fits == lm[3] + 4 + prefix(View(1)) + 4 <= 2 ^ lm[1]
          IN  (pc[1] = "write" /\ off # 0 /\ last_op'.ngram = n
                 /\ nops' = nops + 1) =>
                /\ (last_op'.kind = "insert_ngram" /\ last_op'.res = "ok") =>
                      /\ ~fits <=> ngram_list_ptr(PostView, n) # off
                      /\ ~fits => Reallocated(n, off, lm)
                /\ last_op'.kind = "realloc_list" =>
                      /\ ~fits
                      /\ Reallocated(n, off, lm)
                      /\ get_list_meta(PostView, View(1).raw.size)[2] = 0
                      /\ get_list_meta(PostView, View(1).raw.size)[3] = 0]_vars

\* C23 (amended): insert_ngram allocates a new block exactly when
\* nb_bytes + 4 + 5 + offset_size does not fit in the 2^size_log bytes of the
\* head block; the new block has 2^min(size_log + 1, 12) bytes, becomes the
\* head with prev pointing to the old head and nb_bytes = 0, and holds the
\* inserted id alone when insert_ngram returns; the old block keeps its
\* nb_elem.
C23_OverflowAtCapacity ==
    [][\A n \in LifeNgramSet :
          LET off == ngram_list_ptr(View(1), n)
              lm == get_list_meta(View(1), off)
              fits == lm[3] + 4 + prefix(View(1)) <= 2 ^ lm[1]
              new == View(1).raw.size
          IN  (pc[1] = "write" /\ off # 0 /\ last_op'.ngram = n
                 /\ nops' = nops + 1) =>
                /\ (last_op'.kind = "insert_ngram" /\ last_op'.res = "ok") =>
                      /\ ~fits <=> ngram_list_ptr(PostView, n) # off
                      /\ ~fits => /\ Reallocated(n, off, lm)
                                  /\ get_list_meta(PostView, new)[2] = 1
                                  /\ get_list_meta(PostView, new)[3] = 4
                                  /\ unpack_list(PostView, new) = {last_op'.id}
                /\ last_op'.kind = "realloc_list" =>
                      /\ ~fits
                      /\ Reallocated(n, off, lm)
                      /\ get_list_meta(PostView, new)[3] = 0]_vars

\* The last insert_ngram found a full head block of 16 bytes and left its
\* id in a new head block of 32 bytes that links back to it.
C23_NewHead ==
    /\ AtRest
    /\ last_op.kind = "insert_ngram" /\ last_op.res = "ok"
    /\ LET off == ngram_list_ptr(View(1), last_op.ngram)
           lm == get_list_meta(View(1), off)
       IN  /\ lm[1] = 5 /\ lm[2] = 1 /\ lm[4] # 0
           /\ get_list_meta(View(1), lm[4])[1] = 4
           /\ get_list_meta(View(1), lm[4])[2] = 1
           /\ unpack_list(View(1), off) = {last_op.id}

RECURSIVE scan_rest(_, _, _)
\* The bytes that decoding nb packed deltas from cur_ptr goes through.
scan_rest(m, cur_ptr, nb) ==
    IF nb = 0 THEN 0
    ELSE LET u == unpack_integer(ReadPacked(m, cur_ptr))
         IN  u[2] + scan_rest(m, cur_ptr + u[2], nb - 1)

\* The bytes that unpack_list goes through in the block at list_off: the
\* first id, raw, and nb_elem - 1 packed deltas.
scan_len(db, list_off) ==
    LET nb_elem == get_list_meta(db, list_off)[2]
    IN  IF nb_elem = 0 THEN 0
        ELSE 4 + scan_rest(db.mem, list_off + prefix(db) + 4, nb_elem - 1)

\* C24: at every point where a block is reachable from the header table,
\* between the steps of an insert that allocates a new block included, its
\* nb_elem and nb_bytes agree with its payload: an empty block has
\* nb_bytes = 0, and nb_bytes is the length found by re-scanning nb_elem
\* elements (first raw id plus the packed deltas, with or without the 4
\* bytes of the hot tail that follows them), so that unpacking nb_elem
\* elements stays inside the bytes written for the block.
C24_MetaMatchesPayload ==
    pc[1] \in {"write", "inserting"} =>
        \A b \in blocks(View(1)) :
            LET lm == get_list_meta(View(1), b)
                len == scan_len(View(1), b)
            IN  IF lm[2] <= 1 THEN lm[3] = 4 * lm[2]
                ELSE lm[3] \in {len, len + 4}

RECURSIVE last_rest(_, _, _, _)
\* The last value of cur_elem in the while loop of unpack_list.
last_rest(m, cur_ptr, cur_elem, nb) ==
    IF nb = 0 THEN cur_elem
    ELSE LET u == unpack_integer(ReadPacked(m, cur_ptr))
         IN  last_rest(m, cur_ptr + u[2], cur_elem + u[1], nb - 1)

\* The last id that decoding the block at list_off produces.
last_decoded(db, list_off) ==
    LET first == list_off + prefix(db)
    IN  last_rest(db.mem, first + 4, ReadLE(db.mem, first, 4),
                  get_list_meta(db, list_off)[2] - 1)

\* The raw hot tail of the block at list_off.
hot_tail(db, list_off) ==
    ReadLE(db.mem, list_off + prefix(db) + get_list_meta(db, list_off)[3] - 4, 4)

\* C25: in every block with nb_elem >= 1 the raw 4 bytes at
\* payload + nb_bytes - 4 are the id most recently inserted into the block,
\* which is also the last id that decoding the block produces.
C25_HotTail ==
    AtRest =>
        /\ \A b \in blocks(View(1)) :
               get_list_meta(View(1), b)[2] >= 1 =>
                   hot_tail(View(1), b) = last_decoded(View(1), b)
        /\ (last_op.kind = "insert_ngram" /\ last_op.res = "ok") =>
               hot_tail(View(1), ngram_list_ptr(View(1), last_op.ngram))
                   = last_op.id

\* The shard as its writer has it, or as its file and sidecar keep it when
\* no handle is open.
HeapView ==
    ViewOf(mem, disk_len,
           IF pc[1] \in {"write", "inserting"} THEN hnd[1]
           ELSE [filesize |-> disk_len, raw |-> meta])

\* The head blocks.
heads(db) == { ngram_list_ptr(db, n) : n \in LifeNgramSet } \ {0}

\* C26: across any sequence of inserts, closes and reopenings included, the
\* size of the shard never decreases, a block keeps its offset and its
\* size_log, and no byte of a block that is not the head of its chain is
\* written again.
C26_AppendOnly ==
    [][(meta_exists /\ pc[1] # "creating") =>
          /\ HeapView'.raw.size >= HeapView.raw.size
          /\ \A b \in blocks(HeapView) :
                 /\ b \in blocks(HeapView')
                 /\ get_list_meta(HeapView', b)[1] = get_list_meta(HeapView, b)[1]
                 /\ b \notin heads(HeapView) =>
                        \A a \in b .. b + 2 ^ get_list_meta(HeapView, b)[1] - 1 :
                            Byte(mem', a) = Byte(mem, a)]_vars

\* After a close and a reopening, ids have been added to a head block of 32
\* bytes that follows an older block of 16 bytes, which holds what it held
\* when it was the head.
C26_OldBlock ==
    /\ AtRest
    /\ last_op.kind = "insert_ngram" /\ last_op.res = "ok"
    /\ snap.closed
    /\ \E b \in heads(View(1)) :
           LET lm == get_list_meta(View(1), b)
           IN  /\ lm[1] = 5 /\ lm[2] = 3 /\ lm[4] # 0
               /\ get_list_meta(View(1), lm[4])[1] = 4
               /\ unpack_list(View(1), lm[4]) = {1}
               /\ hot_tail(View(1), b) = 4194307
               /\ snap.raw.size = View(1).raw.size

RECURSIVE well_formed(_, _)
\* From list_off on, the prev links go through blocks at strictly decreasing
\* offsets, at or beyond the header table and below raw.size, down to 0.
well_formed(db, list_off) ==
    \/ list_off = 0
    \/ /\ list_off >= header_size(db.raw)
       /\ list_off < db.raw.size
       /\ get_list_meta(db, list_off)[4] < list_off
       /\ well_formed(db, get_list_meta(db, list_off)[4])

\* C27: for every header slot, the prev links from the head go through
\* blocks at strictly decreasing offsets, each at or beyond the padded header
\* table and below the size of the shard, and reach 0; an n-gram whose slot
\* is 0 has no ids.
C27_ChainWellFormed ==
    (meta_exists /\ pc[1] # "creating") =>
        \A n \in LifeNgramSet :
            /\ well_formed(HeapView, ngram_list_ptr(HeapView, n))
            /\ ngram_list_ptr(HeapView, n) = 0 =>
                   /\ get_ids_by_ngram(HeapView, n) = {}
                   /\ get_ids_size_by_ngram(HeapView, n) = 0
                   /\ intersect_ids_by_ngram(HeapView, {1, 2}, n) = {}

\* One n-gram has a chain of two blocks, which get_ids_by_ngram goes through
\* to the end, and the other n-gram has none.
C27_TwoBlocks ==
    /\ AtRest
    /\ \E n \in LifeNgramSet :
           LET b == ngram_list_ptr(View(1), n)
               p1 == get_list_meta(View(1), b)[4]
           IN  /\ b # 0 /\ p1 # 0
               /\ get_list_meta(View(1), p1)[4] = 0
               /\ get_ids_by_ngram(View(1), n) = {1, 2}
               /\ get_ids_size_by_ngram(View(1), n) = 2
    /\ \E n \in LifeNgramSet : ngram_list_ptr(View(1), n) = 0

\* The ids that every n-gram of N has.
common_ids(db, N) ==
    { i \in UNION { get_ids_by_ngram(db, n) : n \in N } :
        \A n \in N : i \in get_ids_by_ngram(db, n) }

\* C28: for a non-empty set N of n-grams, search_ngrams(N) returns exactly
\* the intersection over n in N of get_ids_by_ngram(n), whatever the order
\* the sort leaves the n-grams in and whatever early exit is taken.
C28_SearchIsIntersection ==
    Open(1) =>
        /\ \A N \in (SUBSET LifeNgramSet) \ {{}} :
               search_ngrams(View(1), N) = { common_ids(View(1), N) }
        /\ (last_op.kind = "search" /\ last_op.res = "ok") =>
               last_op.found = common_ids(View(1), last_op.looked)

\* A search for two n-grams found the one id they share: the shorter list
\* came first, and the loop of intersect_ids_by_ngram over the two blocks of
\* the longer one stopped after the head block.
C28_EarlyExit ==
    /\ Open(1)
    /\ last_op.kind = "search" /\ last_op.res = "ok"
    /\ Cardinality(last_op.looked) = 2
    /\ last_op.found = {2}
    /\ \E n \in last_op.looked :
           /\ get_ids_by_ngram(View(1), n) = {1, 2}
           /\ unpack_list(View(1), ngram_list_ptr(View(1), n)) = {2}
    /\ \E n \in last_op.looked : get_ids_by_ngram(View(1), n) = {2}

\* C29: every block offset the allocator hands out is a multiple of
\* 2^alignment and smaller than 2^(8*offset_size + alignment) (the offsets
\* of the model are all below 2^31), and the header slot and the prev field
\* it is written to give it back when they are read, after any number of
\* allocations.
C29_OffsetsLossless ==
    [][(last_op'.kind = "insert_ngram" /\ last_op'.res = "ok"
          /\ PostView.raw.size # View(1).raw.size) =>
          LET handed == View(1).raw.size
              old == ngram_list_ptr(View(1), last_op'.ngram)
              bits == 8 * View(1).raw.offset_size + View(1).raw.alignment
          IN  /\ handed % (2 ^ View(1).raw.alignment) = 0
              /\ bits >= 31 \/ handed < 2 ^ bits
              /\ ngram_list_ptr(PostView, last_op'.ngram) = handed
              /\ get_list_meta(PostView, handed)[4] = old]_vars

\* C30: with offset_size in 4 .. 6 and alignment in 4 .. 12, every byte that
\* insert_ngram writes in a block (its prefix, the packed delta, the raw hot
\* tail, the promotion of a first element with a 4-byte delta included) is
\* inside the 2^size_log bytes of the block being written and below the
\* length of the mapped file; the call writes nowhere else than there and in
\* the header table.
C30_WritesInBlock ==
    [][(pc[1] = "write" /\ last_op'.kind = "insert_ngram"
          /\ nops' = nops + 1 /\ InRange(View(1).raw)) =>
          LET st == insert_ngram_stores(View(1), last_op'.id, last_op'.ngram)
              top == st.list_off + 2 ^ st.size_log
          IN  /\ st.mapped = disk_len'
              /\ top <= st.mapped
              /\ st.list_off + prefix(View(1)) <= top
              /\ st.from >= st.list_off + prefix(View(1))
              /\ st.upto <= top
              /\ \A a \in DOMAIN mem \cup DOMAIN mem' :
                     Byte(mem', a) # Byte(mem, a) =>
                         \/ a < header_size(View(1).raw)
                         \/ a \in st.list_off .. st.list_off + prefix(View(1)) - 1
                         \/ a \in st.from .. st.upto - 1]_vars

\* With offset_size 6, the first id of a 32-byte block has been promoted
\* and followed by a 4-byte delta and the raw id: 12 bytes of payload.
C30_Promotion ==
    /\ AtRest
    /\ last_op.kind = "insert_ngram" /\ last_op.res = "ok"
    /\ View(1).raw.offset_size = 6
    /\ LET lm == get_list_meta(View(1), ngram_list_ptr(View(1), last_op.ngram))
       IN  lm[1] = 5 /\ lm[2] = 2 /\ lm[3] = 12

\* The n-grams have the same ngram_size low bits.
congruent(db, m, n) ==
    m % (2 ^ db.raw.ngram_size) = n % (2 ^ db.raw.ngram_size)

\* The addresses of the header slot of the n-gram.
slot_bytes(db, n) ==
    LET at == db.raw.offset_size * (n % (2 ^ db.raw.ngram_size))
    IN  at .. at + db.raw.offset_size - 1

\* The addresses of the block at list_off (none when list_off is 0).
block_bytes(db, list_off) ==
    IF list_off = 0 THEN {}
    ELSE list_off .. list_off + 2 ^ get_list_meta(db, list_off)[1] - 1

\* C31: insert_ngram(id, n) changes only the header slot of n reduced modulo
\* 2^ngram_size, the head block of that chain or a block it allocates, and
\* raw.size; for every n-gram m not congruent to n the header slot, the
\* blocks of the chain and get_ids_by_ngram(m) are unchanged, and the
\* n-grams congruent to n have the posting list of n.
C31_InsertFrame ==
    [][(pc[1] = "write" /\ last_op'.kind = "insert_ngram") =>
          LET n == last_op'.ngram
              db == View(1)
          IN  /\ \A a \in DOMAIN mem \cup DOMAIN mem' :
                     Byte(mem', a) # Byte(mem, a) =>
                         \/ a \in slot_bytes(db, n)
                         \/ a \in block_bytes(db, ngram_list_ptr(db, n))
                         \/ a \in db.raw.size .. PostView.raw.size - 1
              /\ PostView.raw = [db.raw EXCEPT !.size = PostView.raw.size]
              /\ \A m \in NgramSet :
                     IF congruent(db, m, n)
                     THEN /\ ngram_list_ptr(PostView, m)
                                = ngram_list_ptr(PostView, n)
                          /\ get_ids_by_ngram(PostView, m)
                                = get_ids_by_ngram(PostView, n)
                     ELSE /\ ngram_list_ptr(PostView, m) = ngram_list_ptr(db, m)
                          /\ \A b \in chain(db, ngram_list_ptr(db, m)) :
                                 \A a \in block_bytes(db, b) :
                                     Byte(mem', a) = Byte(mem, a)
                          /\ get_ids_by_ngram(PostView, m)
                                = get_ids_by_ngram(db, m)]_vars

\* An id has been inserted for an n-gram while another n-gram, not
\* congruent to it, had a list, which it keeps; the n-gram congruent to the
\* first one reads the id that was inserted.
C31_SharedList ==
    /\ pc[1] = "write"
    /\ last_op.kind = "insert_ngram" /\ last_op.res = "ok"
    /\ \E m \in NgramSet :
           /\ m # last_op.ngram
           /\ congruent(View(1), m, last_op.ngram)
           /\ get_ids_by_ngram(View(1), m) = {last_op.id}
    /\ \E m \in NgramSet :
           /\ ~congruent(View(1), m, last_op.ngram)
           /\ get_ids_by_ngram(View(1), m) # {}
           /\ last_op.id \notin get_ids_by_ngram(View(1), m)

\* The BinacleMeta new keeps the shard list and the file count of old: no
\* shard less, no full shard marked as not full, no file less.
keeps_meta(old, new) ==
    /\ Len(new.index) >= Len(old.index)
    /\ \A i \in 1 .. Len(old.index) : old.index[i] => new.index[i]
    /\ new.nb_file >= old.nb_file

\* No two BinacleManager are open on the database at the same time.
one_manager == \A m1, m2 \in Mgrs : mgr[m1].pc # "none" /\ mgr[m2].pc # "none" => m1 = m2

\* Each write of the manager file keeps the shard list and the file count
\* that the file holds.
drop_keeps_meta == [][mfile.exists /\ mfile'.meta # mfile.meta => keeps_meta(mfile.meta, mfile'.meta)]_vars

\* C32: the exclusive lock that create and open take on the manager file
\* is held until the manager is dropped: two BinacleManager are never open
\* on the database at the same time, and the metadata written when a
\* manager is dropped never replaces a shard list or a file count that
\* another manager has written.
C32_ManagerExclusive == []one_manager /\ drop_keeps_meta

=============================================================================
